---------------------------- MODULE Spec2Model ----------------------------
(***************************************************************************)
(* A model of the SQL Server -> MySQL converter (src/sqlConverter.js and   *)
(* the convert command of src/index.js).                                   *)
(*                                                                         *)
(* Text is a sequence of one-character strings.  The eight rewrite rules   *)
(* are kept as data (pattern, flags, replacement) and interpreted by a     *)
(* small regular-expression matcher with the semantics of JavaScript's     *)
(* String.prototype.replace with a global pattern.                         *)
(***************************************************************************)
EXTENDS Naturals, Sequences, FiniteSets, TLC

(***************************************************************************)
(* Characters and character classes (ECMAScript, no unicode flag).         *)
(***************************************************************************)
UpperSeq == <<"A", "B", "C", "D", "E", "F", "G", "H", "I", "J", "K", "L", "M",
              "N", "O", "P", "Q", "R", "S", "T", "U", "V", "W", "X", "Y", "Z">>
LowerSeq == <<"a", "b", "c", "d", "e", "f", "g", "h", "i", "j", "k", "l", "m",
              "n", "o", "p", "q", "r", "s", "t", "u", "v", "w", "x", "y", "z">>
Upper == {UpperSeq[i] : i \in DOMAIN UpperSeq}
Lower == {LowerSeq[i] : i \in DOMAIN LowerSeq}
\* \d
DigitChars == {"0", "1", "2", "3", "4", "5", "6", "7", "8", "9"}
\* \w
WordChars == Upper \cup Lower \cup DigitChars \cup {"_"}
\* \s (the members that occur in the modelled texts)
SpaceChars == {" ", "\t", "\n", "\r"}

\* Canonicalize of the i flag: toUpperCase of the character.
Canonicalize(c) ==
    IF c \in Lower THEN UpperSeq[CHOOSE i \in DOMAIN LowerSeq : LowerSeq[i] = c]
    ELSE c

InClass(cls, c) ==
    CASE cls = "w" -> c \in WordChars
      [] cls = "d" -> c \in DigitChars
      [] cls = "s" -> c \in SpaceChars
      [] cls = "notRBracket" -> c # "]"

(***************************************************************************)
(* Pattern elements: a literal character, a greedy one-or-more character   *)
(* class (optionally the capture group 1) and the word boundary \b.        *)
(***************************************************************************)
Lit(s) == [i \in DOMAIN s |-> [k |-> "lit", c |-> s[i], cap |-> FALSE]]
Plus(cls) == <<[k |-> "plus", c |-> cls, cap |-> FALSE]>>
Group(cls) == <<[k |-> "plus", c |-> cls, cap |-> TRUE]>>
WordBoundary == <<[k |-> "wb", c |-> "", cap |-> FALSE]>>

\* this.conversions: the rule table, in declared order.
conversions == <<
    \* /\[dbo\]\.\[(\w+)\]/g -> '$1'
    [pattern |-> Lit(<<"[", "d", "b", "o", "]", ".", "[">>) \o Group("w") \o Lit(<<"]">>),
     ignoreCase |-> FALSE,
     replacement |-> <<"$1">>],
    \* /\[([^\]]+)\]/g -> '$1'
    [pattern |-> Lit(<<"[">>) \o Group("notRBracket") \o Lit(<<"]">>),
     ignoreCase |-> FALSE,
     replacement |-> <<"$1">>],
    \* /GETDATE\(\)/g -> 'NOW()'
    [pattern |-> Lit(<<"G", "E", "T", "D", "A", "T", "E", "(", ")">>),
     ignoreCase |-> FALSE,
     replacement |-> <<"N", "O", "W", "(", ")">>],
    \* /GETUTCDATE\(\)/g -> 'UTC_TIMESTAMP()'
    [pattern |-> Lit(<<"G", "E", "T", "U", "T", "C", "D", "A", "T", "E", "(", ")">>),
     ignoreCase |-> FALSE,
     replacement |-> <<"U", "T", "C", "_", "T", "I", "M", "E", "S", "T", "A", "M", "P", "(", ")">>],
    \* /NEWID\(\)/g -> 'UUID()'
    [pattern |-> Lit(<<"N", "E", "W", "I", "D", "(", ")">>),
     ignoreCase |-> FALSE,
     replacement |-> <<"U", "U", "I", "D", "(", ")">>],
    \* /\bLEN\(/g -> 'LENGTH('
    [pattern |-> WordBoundary \o Lit(<<"L", "E", "N", "(">>),
     ignoreCase |-> FALSE,
     replacement |-> <<"L", "E", "N", "G", "T", "H", "(">>],
    \* /\bISNULL\(/g -> 'IFNULL('
    [pattern |-> WordBoundary \o Lit(<<"I", "S", "N", "U", "L", "L", "(">>),
     ignoreCase |-> FALSE,
     replacement |-> <<"I", "F", "N", "U", "L", "L", "(">>],
    \* /\bTOP\s+(\d+)\b/gi -> 'LIMIT $1'
    [pattern |-> WordBoundary \o Lit(<<"T", "O", "P">>) \o Plus("s") \o Group("d")
                 \o WordBoundary,
     ignoreCase |-> TRUE,
     replacement |-> <<"L", "I", "M", "I", "T", " ", "$1">>] >>

(***************************************************************************)
(* The matcher.  A match result is <<end, capStart, capEnd>>: end is the   *)
(* index just after the match, the capture is text[capStart..capEnd];      *)
(* NoMatch has end 0.                                                      *)
(***************************************************************************)
NoMatch == <<0, 0, 0>>

Max(S) == CHOOSE m \in S : \A n \in S : n <= m

Least(S) == CHOOSE m \in S : \A n \in S : m <= n

IsWordAt(text, i) == i >= 1 /\ i <= Len(text) /\ text[i] \in WordChars

\* A plausible slip: every pattern is given the i flag.
SameCharIgnoringCase(a, b, ignoreCase) == Canonicalize(a) = Canonicalize(b)

SameChar(a, b, ignoreCase) ==
    IF ignoreCase THEN Canonicalize(a) = Canonicalize(b) ELSE a = b

\* The number of consecutive characters of class cls from index i on.
RECURSIVE RunLength(_, _, _)
RunLength(cls, text, i) ==
    IF i <= Len(text) /\ InClass(cls, text[i])
    THEN 1 + RunLength(cls, text, i + 1)
    ELSE 0

\* Match pattern elements j.. of pat against text from index i on; a greedy
\* class takes the longest run after which the rest still matches.
RECURSIVE MatchFrom(_, _, _, _, _)
MatchFrom(pat, j, text, i, ignoreCase) ==
    IF j > Len(pat) THEN <<i, 0, 0>>
    ELSE CASE pat[j].k = "lit" ->
                IF i <= Len(text) /\ SameChar(text[i], pat[j].c, ignoreCase)
                THEN MatchFrom(pat, j + 1, text, i + 1, ignoreCase)
                ELSE NoMatch
           [] pat[j].k = "wb" ->
                IF IsWordAt(text, i - 1) # IsWordAt(text, i)
                THEN MatchFrom(pat, j + 1, text, i, ignoreCase)
                ELSE NoMatch
           [] pat[j].k = "plus" ->
                LET run == RunLength(pat[j].c, text, i)
                    ok == {n \in 1..run :
                             MatchFrom(pat, j + 1, text, i + n, ignoreCase)[1] # 0}
                IN  IF ok = {} THEN NoMatch
                    ELSE LET n == Max(ok)
                             r == MatchFrom(pat, j + 1, text, i + n, ignoreCase)
                         IN  IF pat[j].cap THEN <<r[1], i, i + n - 1>> ELSE r

\* A plausible slip: $1 is written out as it stands.
ExpandLiteral(replacement, text, m) == replacement

\* The replacement template with $1 expanded to the captured text.
RECURSIVE Expand(_, _, _)
Expand(replacement, text, m) ==
    IF replacement = <<>> THEN <<>>
    ELSE (IF Head(replacement) = "$1" THEN SubSeq(text, m[2], m[3])
          ELSE <<Head(replacement)>>)
         \o Expand(Tail(replacement), text, m)

\* The index at or after i where the leftmost match of conv.pattern
\* starts, 0 when the rest of the text has no match.
NextMatchStart(text, i, conv) ==
    LET starts == {s \in i..Len(text) :
                     MatchFrom(conv.pattern, 1, text, s, conv.ignoreCase)[1] # 0}
    IN  IF starts = {} THEN 0 ELSE Least(starts)

\* text.replace(conv.pattern, conv.replacement) from index i on: every
\* non-overlapping match, leftmost first, is replaced; the text between
\* matches is kept, the scan resumes after the match and never looks at
\* replaced text again.
RECURSIVE ReplaceFrom(_, _, _)
ReplaceFrom(text, i, conv) ==
    LET s == NextMatchStart(text, i, conv)
    IN  IF s = 0 THEN SubSeq(text, i, Len(text))
        ELSE LET m == MatchFrom(conv.pattern, 1, text, s, conv.ignoreCase)
             IN  SubSeq(text, i, s - 1)
                 \o Expand(conv.replacement, text, m)
                 \o ReplaceFrom(text, m[1], conv)

\* A plausible slip: the g flag is missing, so only the first match is
\* replaced.
ReplaceFirstFrom(text, i, conv) ==
    LET s == NextMatchStart(text, i, conv)
    IN  IF s = 0 THEN SubSeq(text, i, Len(text))
        ELSE LET m == MatchFrom(conv.pattern, 1, text, s, conv.ignoreCase)
             IN  SubSeq(text, i, s - 1)
                 \o Expand(conv.replacement, text, m)
                 \o SubSeq(text, m[1], Len(text))

ReplaceFirst(text, conv) == ReplaceFirstFrom(text, 1, conv)

Replace(text, conv) ==
    ReplaceFrom(text, 1, conv)

(***************************************************************************)
(* Buffered conversion.                                                    *)
(***************************************************************************)
\* A plausible slip: every rule is applied to the original text, so only
\* the last rule's rewriting survives.
ApplyConversionsToOriginal(text) == Replace(text, conversions[Len(conversions)])

\* The forEach over this.conversions: rule k is applied to the text the
\* rules before it produced, and its result is assigned to converted (the
\* same text when the rule matches nothing) before the next rule runs.
RECURSIVE ApplyConversionsFrom(_, _)
ApplyConversionsFrom(converted, k) ==
    IF k > Len(conversions) THEN converted
    ELSE LET replaced == Replace(converted, conversions[k])
         IN  IF replaced = converted
             THEN ApplyConversionsFrom(converted, k + 1)
             ELSE ApplyConversionsFrom(replaced, k + 1)

\* A plausible slip: the loop starts at the second rule.
ApplyConversionsSkippingFirst(text) == ApplyConversionsFrom(text, 2)

ApplyConversions(text) ==
    ApplyConversionsFrom(text, 1)

\* The header template literal, with the ISO timestamp in its second line.
HeaderBeforeTimestamp ==
    <<"-", "-", " ", "C", "o", "n", "v", "e", "r", "t", "e", "d", " ", "f", "r", "o",
          "m", " ", "S", "Q", "L", " ", "S", "e", "r", "v", "e", "r", " ", "t", "o", " ",
          "M", "y", "S", "Q", "L", "\n", "-", "-", " ", "G", "e", "n", "e", "r", "a", "t",
          "e", "d", " ", "o", "n", ":", " ">>
HeaderAfterTimestamp ==
    <<"\n", "-", "-", " ", "U", "s", "e", " ", "w", "i", "t", "h", " ", "c", "a", "u",
          "t", "i", "o", "n", " ", "a", "n", "d", " ", "v", "e", "r", "i", "f", "y", " ",
          "b", "e", "f", "o", "r", "e", " ", "e", "x", "e", "c", "u", "t", "i", "n", "g",
          "\n", "\n">>
header(timestamp) ==
    HeaderBeforeTimestamp \o timestamp \o HeaderAfterTimestamp

\* convertToMySQL(sqlContent), with new Date().toISOString() as a parameter.
convertToMySQL(sqlContent, timestamp) ==
    header(timestamp) \o ApplyConversions(sqlContent)

(***************************************************************************)
(* Inputs.  A text is a concatenation of at most MaxFragments fragments,   *)
(* or one of the example statements.                                       *)
(***************************************************************************)
MaxFragments == 3

Fragments == {
    <<"[">>, <<"]">>,
    <<"[", "d", "b", "o", "]", ".">>,
    <<"[", "s", "]", ".">>,
    <<"[", "c", "]">>,
    <<"x">>, <<" ">>, <<"1">>, <<"\n">>,
    <<"T", "O", "P">>, <<"t", "o", "p">>,
    <<"L", "E", "N", "(">>,
    <<"N", "E", "W", "I", "D", "(", ")">>,
    <<"n", "e", "w", "i", "d", "(", ")">> }

RECURSIVE Concat(_)
Concat(parts) ==
    IF parts = <<>> THEN <<>> ELSE Head(parts) \o Concat(Tail(parts))

FragmentTexts ==
    {Concat(parts) : parts \in UNION {[1..n -> Fragments] : n \in 0..MaxFragments}}

\* SELECT TOP n [col] FROM [dbo].[tab] and what the README promises for it.
SelectTopStatement(n, col, tab) ==
    <<"S", "E", "L", "E", "C", "T", " ", "T", "O", "P", " ">> \o n \o <<" ", "[">> \o col \o <<"]", " ", "F", "R", "O", "M", " ", "[", "d", "b", "o", "]", ".", "[">> \o tab \o <<"]">>
SelectLimitStatement(n, col, tab) ==
    <<"S", "E", "L", "E", "C", "T", " ", "L", "I", "M", "I", "T", " ">> \o n \o <<" ">> \o col \o <<" ", "F", "R", "O", "M", " ">> \o tab

ExampleCounts == {<<"1">>, <<"1", "0">>}
ExampleNames == {<<"I", "d">>, <<"U", "s", "e", "r", "s">>, <<"a", "_", "1">>}

\* spec.md, section 8: SELECT TOP 10 [Id] FROM [dbo].[Users]
SpecExampleInput == SelectTopStatement(<<"1", "0">>, <<"I", "d">>, <<"U", "s", "e", "r", "s">>)
SpecExampleBody ==
    <<"S", "E", "L", "E", "C", "T", " ", "L", "I", "M", "I", "T", " ", "1", "0", " ",
          "I", "d", " ", "F", "R", "O", "M", " ", "U", "s", "e", "r", "s">>

\* README.md, "Converting your AbpAuditLogs INSERT".
ReadmeInput ==
    <<"I", "N", "S", "E", "R", "T", " ", "I", "N", "T", "O", " ", "[", "d", "b", "o",
          "]", ".", "[", "A", "b", "p", "A", "u", "d", "i", "t", "L", "o", "g", "s", "]",
          " ", "(", "[", "I", "d", "]", ",", " ", "[", "B", "r", "o", "w", "s", "e", "r",
          "I", "n", "f", "o", "]", ",", " ", "[", "C", "l", "i", "e", "n", "t", "I", "p",
          "A", "d", "d", "r", "e", "s", "s", "]", ")", " ", "\n", "V", "A", "L", "U", "E",
          "S", " ", "(", "'", "g", "u", "i", "d", "-", "h", "e", "r", "e", "'", ",", " ",
          "'", "C", "h", "r", "o", "m", "e", "'", ",", " ", "'", "1", "9", "2", ".", "1",
          "6", "8", ".", "1", ".", "1", "'", ")", ";">>
ReadmeBody ==
    <<"I", "N", "S", "E", "R", "T", " ", "I", "N", "T", "O", " ", "A", "b", "p", "A",
          "u", "d", "i", "t", "L", "o", "g", "s", " ", "(", "I", "d", ",", " ", "B", "r",
          "o", "w", "s", "e", "r", "I", "n", "f", "o", ",", " ", "C", "l", "i", "e", "n",
          "t", "I", "p", "A", "d", "d", "r", "e", "s", "s", ")", " ", "\n", "V", "A", "L",
          "U", "E", "S", " ", "(", "'", "g", "u", "i", "d", "-", "h", "e", "r", "e", "'",
          ",", " ", "'", "C", "h", "r", "o", "m", "e", "'", ",", " ", "'", "1", "9", "2",
          ".", "1", "6", "8", ".", "1", ".", "1", "'", ")", ";">>

TopKeywords == {<<"T", "O", "P">>, <<"t", "o", "p">>, <<"T", "o", "p">>, <<"t", "O", "P">>}
TopExample(kw, n) == kw \o <<" ">> \o n

S_NEWID == <<"N", "E", "W", "I", "D", "(", ")">>
S_UUID == <<"U", "U", "I", "D", "(", ")">>
S_GETDATE == <<"G", "E", "T", "D", "A", "T", "E", "(", ")">>
S_NOW == <<"N", "O", "W", "(", ")">>
S_newid == <<"n", "e", "w", "i", "d", "(", ")">>
S_getdate == <<"g", "e", "t", "d", "a", "t", "e", "(", ")">>
S_dbo == <<"d", "b", "o">>

\* One statement with both letter cases of the keyword and the functions.
MixedCaseInput ==
    <<"s", "e", "l", "e", "c", "t", " ", "t", "o", "p", " ", "5", " ", "g", "e", "t",
          "d", "a", "t", "e", "(", ")", ",", " ", "G", "E", "T", "D", "A", "T", "E", "(",
          ")", ",", " ", "n", "e", "w", "i", "d", "(", ")", ",", " ", "N", "E", "W", "I",
          "D", "(", ")">>
MixedCaseBody ==
    <<"s", "e", "l", "e", "c", "t", " ", "L", "I", "M", "I", "T", " ", "5", " ", "g",
          "e", "t", "d", "a", "t", "e", "(", ")", ",", " ", "N", "O", "W", "(", ")", ",",
          " ", "n", "e", "w", "i", "d", "(", ")", ",", " ", "U", "U", "I", "D", "(", ")">>

ExampleTexts ==
    {SelectTopStatement(n, col, tab) :
        n \in ExampleCounts, col \in ExampleNames, tab \in ExampleNames}
    \cup {TopExample(kw, n) : kw \in TopKeywords, n \in ExampleCounts}
    \cup {ReadmeInput, MixedCaseInput, S_NEWID, S_GETDATE, S_newid, S_getdate,
          <<"G", "E", "T", "U", "T", "C", "D", "A", "T", "E", "(", ")">>,
          <<"I", "S", "N", "U", "L", "L", "(", "L", "E", "N", "(", "x", ")", ",", " ", "0",
          ")">>,
          <<"s", "e", "l", "e", "c", "t", " ", "g", "e", "t", "d", "a", "t", "e", "(", ")",
          ",", " ", "G", "E", "T", "D", "A", "T", "E", "(", ")", ",", " ", "G", "e", "t",
          "d", "a", "t", "e", "(", ")">>,
          <<"[", "s", "a", "l", "e", "s", "]", ".", "[", "U", "s", "e", "r", "s", "]">>,
          <<"S", "E", "L", "E", "C", "T", " ", "*", " ", "F", "R", "O", "M", " ", "[", "s",
          "a", "l", "e", "s", "]", ".", "[", "O", "r", "d", "e", "r", "s", "]", " ", "o">>,
          <<"U", "P", "D", "A", "T", "E", " ", "[", "d", "b", "o", "]", ".", "[", "U", "s",
          "e", "r", "s", "]", " ", "S", "E", "T", " ", "[", "N", "a", "m", "e", "]", " ",
          "=", " ", "N", "E", "W", "I", "D", "(", ")">>,
          <<"[", "[", "a", "]", "]">>}

\* new Date().toISOString() at two different times.
Timestamps == {
    <<"2", "0", "2", "4", "-", "0", "1", "-", "1", "5", "T", "1", "0", ":", "3", "0",
          ":", "0", "0", ".", "0", "0", "0", "Z">>,
    <<"2", "0", "2", "6", "-", "1", "1", "-", "0", "4", "T", "1", "8", ":", "1", "7",
          ":", "4", "2", ".", "1", "2", "3", "Z">> }

(***************************************************************************)
(* Mode selection.                                                         *)
(***************************************************************************)
BytesPerMB == 1024 * 1024

\* sqlConverter.js: if (fileSizeInMB > 50)
ConvertAndSaveThresholdMB == 50
\* index.js: if (fileSizeInMB > 50)
ConvertCommandThresholdMB == 50

\* stats.size / (1024 * 1024) > mb.  The division by 2^20 is exact in
\* IEEE doubles, so the comparison is that of the integers.
FileSizeInMBExceeds(size, mb) == size > mb * BytesPerMB

\* A plausible slip: the file of exactly the threshold size is streamed.
ConvertAndSaveUsesStreamingInclusive(size) ==
    size >= ConvertAndSaveThresholdMB * BytesPerMB

ConvertAndSaveUsesStreaming(size) ==
    FileSizeInMBExceeds(size, ConvertAndSaveThresholdMB)

ConvertCommandUsesStreaming(size) ==
    FileSizeInMBExceeds(size, ConvertCommandThresholdMB)

(***************************************************************************)
(* Streaming conversion.                                                   *)
(***************************************************************************)
\* A plausible slip: the streaming header ends after its third line.
streamingHeaderWithoutBlankLine(timestamp) ==
    HeaderBeforeTimestamp \o timestamp
    \o <<"\n", "-", "-", " ", "U", "s", "e", " ", "w", "i", "t", "h", " ", "c", "a", "u",
          "t", "i", "o", "n", " ", "a", "n", "d", " ", "v", "e", "r", "i", "f", "y", " ",
          "b", "e", "f", "o", "r", "e", " ", "e", "x", "e", "c", "u", "t", "i", "n", "g",
          "\n">>

\* The header template literal of convertLargeFileStreaming.
streamingHeader(timestamp) ==
    HeaderBeforeTimestamp \o timestamp \o HeaderAfterTimestamp

\* The lines readline emits for the source (crlfDelay: Infinity): \r\n, \n
\* and \r end a line, and a last line without terminator is emitted when it
\* is not empty.
RECURSIVE ReadlineFrom(_, _)
ReadlineFrom(text, i) ==
    IF i > Len(text) THEN <<>>
    ELSE LET ends == {e \in i..Len(text) : text[e] \in {"\n", "\r"}}
         IN  IF ends = {} THEN <<SubSeq(text, i, Len(text))>>
             ELSE LET e == Least(ends)
                      crlf == text[e] = "\r" /\ e < Len(text) /\ text[e + 1] = "\n"
                  IN  <<SubSeq(text, i, e - 1)>>
                      \o ReadlineFrom(text, IF crlf THEN e + 2 ELSE e + 1)

ReadlineLines(text) == ReadlineFrom(text, 1)

\* A plausible slip: every line counts as converted.
ConvertLineAlwaysCounted(line) ==
    [convertedLine |-> ApplyConversions(line), hasConversions |-> TRUE]

\* The forEach of the line handler: convertedLine after the rules k.., and
\* whether any rule changed the line.
RECURSIVE ConvertLineFrom(_, _, _)
ConvertLineFrom(convertedLine, k, hasConversions) ==
    IF k > Len(conversions)
    THEN [convertedLine |-> convertedLine, hasConversions |-> hasConversions]
    ELSE LET beforeConversion == convertedLine
             afterConversion == Replace(convertedLine, conversions[k])
         IN  IF beforeConversion # afterConversion
             THEN ConvertLineFrom(afterConversion, k + 1, TRUE)
             ELSE ConvertLineFrom(afterConversion, k + 1, hasConversions)

ConvertLine(line) == ConvertLineFrom(line, 1, FALSE)

\* A plausible slip: the line terminator is not written back.
LineChunkWithoutTerminator(convertedLine) == convertedLine

\* writeStream.write(convertedLine + '\n')
LineChunk(convertedLine) ==
    convertedLine \o <<"\n">>

(***************************************************************************)
(* Preview and statistics of the convert command.                          *)
(***************************************************************************)
\* text.split('\n')
SplitLines(text) ==
    LET breaks == {i \in DOMAIN text : text[i] = "\n"}
        \* the k-th line feed, counted from 1; 0 and Len(text) + 1 stand for
        \* the ends of the text
        break(k) == IF k = 0 THEN 0
                    ELSE IF k > Cardinality(breaks) THEN Len(text) + 1
                    ELSE CHOOSE p \in breaks :
                             Cardinality({q \in breaks : q < p}) = k - 1
    IN  [k \in 1..(Cardinality(breaks) + 1) |->
            SubSeq(text, break(k - 1) + 1, break(k) - 1)]

\* index.js: .slice(0, 20)
PreviewLineLimit == 20

\* A plausible slip: the preview is not cut off.
previewLinesUnsliced(convertedContent) == SplitLines(convertedContent)

\* convertedContent.split('\n').slice(0, 20)
previewLines(convertedContent) ==
    LET lines == SplitLines(convertedContent)
    IN  SubSeq(lines, 1,
               IF Len(lines) < PreviewLineLimit THEN Len(lines) ELSE PreviewLineLimit)

\* originalContent.match(conv.pattern) of a pattern with the g flag: the
\* number of non-overlapping matches, leftmost first (0 stands for null).
RECURSIVE MatchCountFrom(_, _, _)
MatchCountFrom(text, i, conv) ==
    LET s == NextMatchStart(text, i, conv)
    IN  IF s = 0 THEN 0
        ELSE 1 + MatchCountFrom(text,
                     MatchFrom(conv.pattern, 1, text, s, conv.ignoreCase)[1], conv)

MatchCount(text, conv) == MatchCountFrom(text, 1, conv)

\* The forEach of getConversionStats from rule k on: one entry per rule
\* that matches the original text.  The pattern stands for its toString().
RECURSIVE conversionsAppliedFrom(_, _)
conversionsAppliedFrom(originalContent, k) ==
    IF k > Len(conversions) THEN <<>>
    ELSE (IF MatchCount(originalContent, conversions[k]) > 0
          THEN <<[pattern |-> conversions[k].pattern,
                  count |-> MatchCount(originalContent, conversions[k])]>>
          ELSE <<>>)
         \o conversionsAppliedFrom(originalContent, k + 1)

\* A plausible slip: each rule's matches are counted in the text the rules
\* before it have produced.
RECURSIVE conversionsAppliedToRunningText(_, _)
conversionsAppliedToRunningText(text, k) ==
    IF k > Len(conversions) THEN <<>>
    ELSE (IF MatchCount(text, conversions[k]) > 0
          THEN <<[pattern |-> conversions[k].pattern,
                  count |-> MatchCount(text, conversions[k])]>>
          ELSE <<>>)
         \o conversionsAppliedToRunningText(Replace(text, conversions[k]), k + 1)

getConversionStatsOfRunningText(originalContent, convertedContent) ==
    [originalLines |-> Len(SplitLines(originalContent)),
     convertedLines |-> Len(SplitLines(convertedContent)),
     conversionsApplied |-> conversionsAppliedToRunningText(originalContent, 1)]

getConversionStats(originalContent, convertedContent) ==
    [originalLines |-> Len(SplitLines(originalContent)),
     convertedLines |-> Len(SplitLines(convertedContent)),
     conversionsApplied |-> conversionsAppliedFrom(originalContent, 1)]

\* No statistics have been computed.
NoStats == [originalLines |-> 0, convertedLines |-> 0, conversionsApplied |-> <<>>]

\* executeSQLFile has neither returned nor thrown.
NoResult ==
    [outcome |-> "none", success |-> FALSE, executedCount |-> 0, errorCount |-> 0,
     totalStatements |-> 0]

\* The options of the convert command.
NoOptions == [preview |-> FALSE, stats |-> FALSE]

\* The write stream's buffer limit in characters (Node's default is 16384
\* bytes; scaled to the modelled texts): write() returns false once the
\* buffered length reaches it.
HighWaterMark == 131

WritableLength(buffer) == Len(Concat(buffer))

\* sqlConverter.js: if (lineCount % 10000 === 0)
ProgressInterval == 10000

\* The test made on the count before the line handler has incremented it.
IsProgressLineBeforeIncrement(n) == (n - 1) % ProgressInterval = 0

\* lineCount % 10000 === 0, on the count the line handler has incremented.
IsProgressLine(n) == n % ProgressInterval = 0

\* `\rProcessed ${lineCount} lines...`
ProgressMessage(n) == [kind |-> "progress", lineCount |-> n]

\* `\rProcessed ${lineCount} lines total.\n`
TotalMessage(n) == [kind |-> "total", lineCount |-> n]

(***************************************************************************)
(* Source texts of the pipeline: at most MaxPipelineFragments fragments.   *)
(***************************************************************************)
MaxPipelineFragments == 3

PipelineFragments == {
    <<"[">>, <<"]">>, <<"[", "c", "]">>,
    <<"T", "O", "P">>, <<"1">>,
    <<"\n">>, <<"\r", "\n">> }

PipelineInputs ==
    {Concat(parts) :
        parts \in UNION {[1..n -> PipelineFragments] : n \in 0..MaxPipelineFragments}}

\* stat sizes around the threshold.
FileSizes == {52428799, 52428800, 52428801}

VARIABLES
    input,          \* the source text (originalContent)
    now,            \* the value of new Date().toISOString() for this conversion
    pc,             \* where the conversion stands
    output,         \* convertedContent of the buffered conversion
    fileSize,       \* stats.size of the source
    caller,         \* who converts: the convert command or convertAndSave
    mode,           \* the path taken: "buffered" or "streaming"
    lineCount,      \* lines handled by the line handler
    convertedCount, \* lines some rule changed
    wsBuffer,       \* chunks written to writeStream and not yet on disk
    disk,           \* chunks of the output file, in order
    needDrain,      \* write() has returned false and 'drain' is still due
    rlClosed,       \* readline has emitted 'close'
    wsState,        \* the write stream: "none", "open", "ending", "finished",
                    \* "errored" (a write failed) or "destroyed"
    promise,        \* the promise of convertLargeFileStreaming
    rsState,        \* the read stream: "none", "open", "closed" or "errored"
    stdout,         \* what convertLargeFileStreaming has written to process.stdout
    lineBase,       \* lines of the source read before those held in input
    ioLog,          \* history: the synchronous fs calls of a buffered conversion
    lingering,      \* write streams of earlier files of the batch, still at work
    options,        \* the options of the convert command
    preview,        \* the lines the preview has printed
    stats,          \* conversionStats of the convert command
    files,          \* the .sql files of the batch directory
    fileIndex,      \* the file the batch loop stands at
    successCount,   \* successCount of the batch loop
    errorCount,     \* errorCount of the batch loop
    batchLog,       \* history: how each file of the batch ended
    statements,     \* the statements executeSQLFile has split off
    executedCount,  \* executedCount of executeSQLFile
    statementErrors,\* errorCount of executeSQLFile
    executionLog,   \* history: the statements handed to connection.execute
    executeResult,  \* what executeSQLFile has returned or thrown
    entries,        \* readdirSync(directory): the names in the directory
    pattern,        \* options.pattern of the batch command
    outputDir,      \* options.output || directory
    selected,       \* the paths the batch command has listed for conversion
    conversionLog,  \* history: the input and output path of each conversion
    connection,     \* this.connection of the DatabaseManager (0 is null)
    pool,           \* this.pool of the DatabaseManager (0 is null)
    sessions,       \* the connections mysql.createConnection has made
    pools,          \* the pools mysql.createPool has made
    callers,        \* where each caller of connect() stands and what it holds
    closer          \* where close() stands

pipelineVars == <<fileSize, caller, mode, lineCount, convertedCount, wsBuffer,
                  disk, needDrain, rlClosed, wsState, promise, rsState>>

commandVars == <<options, preview, stats>>

batchVars == <<files, fileIndex, successCount, errorCount, batchLog>>

executeVars == <<statements, executedCount, statementErrors, executionLog,
                 executeResult>>

listingVars == <<entries, pattern, outputDir, selected, conversionLog>>

dbVars == <<connection, pool, sessions, pools, callers, closer>>

observerVars == <<stdout, lineBase, ioLog, lingering>>

vars == <<input, now, pc, output, pipelineVars, commandVars, batchVars, executeVars,
          listingVars, dbVars, observerVars>>

\* No file conversion is under way.
PipelineIdle ==
    /\ mode = "none"
    /\ lineCount = 0
    /\ convertedCount = 0
    /\ wsBuffer = <<>>
    /\ disk = <<>>
    /\ needDrain = FALSE
    /\ rlClosed = FALSE
    /\ wsState = "none"
    /\ promise = "none"
    /\ rsState = "none"

\* Nothing has been printed, no fs call has been made, no stream is left
\* over, and input holds the whole source.
ObserverIdle ==
    /\ stdout = <<>>
    /\ lineBase = 0
    /\ ioLog = <<>>
    /\ lingering = <<>>

\* The convert command has printed and computed nothing.
CommandIdle ==
    /\ preview = <<>>
    /\ stats = NoStats

\* No batch is under way.
BatchIdle ==
    /\ files = <<>>
    /\ fileIndex = 0
    /\ successCount = 0
    /\ errorCount = 0
    /\ batchLog = <<>>

\* executeSQLFile has not been called.
ExecuteIdle ==
    /\ statements = <<>>
    /\ executedCount = 0
    /\ statementErrors = 0
    /\ executionLog = <<>>
    /\ executeResult = NoResult

\* The batch command has listed nothing.
ListingIdle ==
    /\ entries = <<>>
    /\ pattern = <<>>
    /\ outputDir = "none"
    /\ selected = <<>>
    /\ conversionLog = <<>>

\* The DatabaseManager as its constructor leaves it, with no call under way.
DatabaseIdle ==
    /\ connection = 0
    /\ pool = 0
    /\ sessions = <<>>
    /\ pools = <<>>
    /\ callers = <<>>
    /\ closer = [pc |-> "idle", target |-> 0]

(***************************************************************************)
(* Spec: the conversion of a text held in memory.                          *)
(***************************************************************************)
Inputs == FragmentTexts \cup ExampleTexts

Init ==
    /\ input \in Inputs
    /\ now \in Timestamps
    /\ pc = "start"
    /\ output = <<>>
    /\ fileSize = 0
    /\ caller = "none"
    /\ PipelineIdle
    /\ options = NoOptions
    /\ CommandIdle
    /\ BatchIdle
    /\ ExecuteIdle
    /\ ListingIdle
    /\ DatabaseIdle
    /\ ObserverIdle

\* const convertedContent = converter.convertToMySQL(originalContent)
ConvertToMySQL ==
    /\ pc = "start"
    /\ output' = convertToMySQL(input, now)
    /\ pc' = "converted"
    /\ UNCHANGED <<input, now, pipelineVars, commandVars, batchVars, executeVars,
                   listingVars, dbVars, observerVars>>

Next == ConvertToMySQL

Spec == Init /\ [][Next]_vars

(***************************************************************************)
(* SpecPipeline: one file through the convert command or convertAndSave,   *)
(* in buffered or in streaming mode.                                       *)
(***************************************************************************)
InitPipeline ==
    /\ input \in PipelineInputs
    /\ now \in Timestamps
    /\ pc = "start"
    /\ output = <<>>
    /\ fileSize \in FileSizes
    /\ caller \in {"convert", "convertAndSave"}
    /\ PipelineIdle
    /\ options = NoOptions
    /\ CommandIdle
    /\ BatchIdle
    /\ ExecuteIdle
    /\ ListingIdle
    /\ DatabaseIdle
    /\ ObserverIdle

\* The synchronous fs calls of a conversion, in the order they are made.
FsCalls == <<"statSync", "readFileSync", "writeFileSync">>

\* The first k fs calls have returned.
CallsMade(k) == [i \in 1..k |-> [call |-> FsCalls[i], ok |-> TRUE]]

\* The first k - 1 fs calls have returned and the k-th has thrown.
CallsUntilFailure(k) == [i \in 1..k |-> [call |-> FsCalls[i], ok |-> i < k]]

\* The small-file branch: read the file, convert it, write the result.
BufferedConvertAndWrite ==
    /\ mode' = "buffered"
    /\ output' = convertToMySQL(input, now)
    /\ disk' = <<convertToMySQL(input, now)>>
    /\ ioLog' = CallsMade(3)
    /\ pc' = "done"
    /\ UNCHANGED <<lineCount, convertedCount, wsBuffer, needDrain, rlClosed,
                   wsState, promise, rsState>>

\* The synchronous part of convertLargeFileStreaming: the streams are
\* created, the header is written and the handlers are registered.
StartStreaming ==
    /\ mode' = "streaming"
    /\ rsState' = "open"
    /\ wsState' = "open"
    /\ wsBuffer' = <<streamingHeader(now)>>
    /\ needDrain' = (WritableLength(<<streamingHeader(now)>>) >= HighWaterMark)
    /\ lineCount' = 0
    /\ convertedCount' = 0
    /\ promise' = "pending"
    /\ ioLog' = CallsMade(1)
    /\ pc' = "streaming"
    /\ UNCHANGED <<output, disk, rlClosed>>

\* converter.convertAndSave(inputFile, outputFile)
ConvertAndSave ==
    /\ pc = "start"
    /\ caller = "convertAndSave"
    /\ IF ConvertAndSaveUsesStreaming(fileSize)
       THEN StartStreaming
       ELSE BufferedConvertAndWrite
    /\ UNCHANGED <<input, now, fileSize, caller, commandVars, batchVars, executeVars,
                   listingVars, dbVars, stdout, lineBase, lingering>>

\* The large-file branch with --preview: a notice is printed and the action
\* returns.
LargeFilePreview ==
    /\ mode' = "streaming"
    /\ ioLog' = CallsMade(1)
    /\ pc' = "done"
    /\ UNCHANGED <<output, lineCount, convertedCount, wsBuffer, disk, needDrain,
                   rlClosed, wsState, promise, rsState, preview, stats>>

\* The small-file branch with --preview: the text is converted, its first
\* lines are printed and the action returns.
SmallFilePreview ==
    /\ mode' = "buffered"
    /\ output' = convertToMySQL(input, now)
    /\ preview' = previewLines(convertToMySQL(input, now))
    /\ ioLog' = CallsMade(2)
    /\ pc' = "done"
    /\ UNCHANGED <<lineCount, convertedCount, wsBuffer, disk, needDrain, rlClosed,
                   wsState, promise, rsState, stats>>

\* The action of the convert command.
ConvertCommand ==
    /\ pc = "start"
    /\ caller = "convert"
    /\ IF ConvertCommandUsesStreaming(fileSize)
       THEN IF options.preview
            THEN LargeFilePreview
            ELSE StartStreaming /\ UNCHANGED <<preview, stats>>
       ELSE IF options.preview
            THEN SmallFilePreview
            ELSE /\ BufferedConvertAndWrite
                 /\ stats' = IF options.stats
                             THEN getConversionStats(input, convertToMySQL(input, now))
                             ELSE stats
                 /\ UNCHANGED preview
    /\ UNCHANGED <<input, now, fileSize, caller, options, batchVars, executeVars,
                   listingVars, dbVars, stdout, lineBase, lingering>>

\* A line handler whose chunk overtakes what the stream still holds.
OnLineAheadOfHeader ==
    /\ pc = "streaming"
    /\ ~rlClosed
    /\ lineCount - lineBase < Len(ReadlineLines(input))
    /\ LET line == ReadlineLines(input)[lineCount - lineBase + 1]
           result == ConvertLine(line)
           buffer == <<LineChunk(result.convertedLine)>> \o wsBuffer
       IN  /\ lineCount' = lineCount + 1
           /\ convertedCount' =
                IF result.hasConversions THEN convertedCount + 1 ELSE convertedCount
           /\ wsBuffer' = buffer
           /\ needDrain' = (needDrain \/ WritableLength(buffer) >= HighWaterMark)
    /\ stdout' = IF IsProgressLine(lineCount + 1)
                 THEN Append(stdout, ProgressMessage(lineCount + 1))
                 ELSE stdout
    /\ UNCHANGED <<input, now, pc, output, fileSize, caller, mode, disk, rlClosed,
                   wsState, promise, rsState, commandVars, batchVars, executeVars,
                   listingVars, dbVars, lineBase, ioLog, lingering>>

\* rl.on('line', ...): the next line is converted and written; the value
\* write() returns is not looked at.
OnLine ==
    /\ pc = "streaming"
    /\ ~rlClosed
    /\ lineCount - lineBase < Len(ReadlineLines(input))
    /\ LET line == ReadlineLines(input)[lineCount - lineBase + 1]
           result == ConvertLine(line)
           buffer == Append(wsBuffer, LineChunk(result.convertedLine))
       IN  /\ lineCount' = lineCount + 1
           /\ convertedCount' =
                IF result.hasConversions THEN convertedCount + 1 ELSE convertedCount
           /\ wsBuffer' = buffer
           /\ needDrain' = (needDrain \/ WritableLength(buffer) >= HighWaterMark)
    /\ stdout' = IF IsProgressLine(lineCount + 1)
                 THEN Append(stdout, ProgressMessage(lineCount + 1))
                 ELSE stdout
    /\ UNCHANGED <<input, now, pc, output, fileSize, caller, mode, disk, rlClosed,
                   wsState, promise, rsState, commandVars, batchVars, executeVars,
                   listingVars, dbVars, lineBase, ioLog, lingering>>

\* The file system has taken the oldest buffered chunk; 'drain' is emitted
\* when the buffer empties after a write() that returned false.
WriteCompleted ==
    /\ wsState \in {"open", "ending"}
    /\ wsBuffer # <<>>
    /\ disk' = Append(disk, Head(wsBuffer))
    /\ wsBuffer' = Tail(wsBuffer)
    /\ needDrain' = IF Tail(wsBuffer) = <<>> /\ wsState = "open" THEN FALSE
                    ELSE needDrain
    /\ UNCHANGED <<input, now, pc, output, fileSize, caller, mode, lineCount,
                   convertedCount, rlClosed, wsState, promise, rsState, commandVars,
                   batchVars, executeVars, listingVars, dbVars, observerVars>>

\* rl.on('close', ...) at the end of the input: the read stream has ended
\* and closes itself, writeStream.end() is called and the promise is
\* resolved with the summary.
OnClose ==
    /\ pc = "streaming"
    /\ ~rlClosed
    /\ lineCount - lineBase = Len(ReadlineLines(input))
    /\ rlClosed' = TRUE
    /\ rsState' = "closed"
    /\ wsState' = "ending"
    /\ stdout' = Append(stdout, TotalMessage(lineCount))
    /\ promise' = "resolved"
    /\ pc' = "done"
    /\ UNCHANGED <<input, now, output, fileSize, caller, mode, lineCount,
                   convertedCount, wsBuffer, disk, needDrain, commandVars, batchVars,
                   executeVars, listingVars, dbVars, lineBase, ioLog, lingering>>

\* The ended write stream has written all it held: 'finish'.
WriteFinished ==
    /\ wsState = "ending"
    /\ wsBuffer = <<>>
    /\ wsState' = "finished"
    /\ UNCHANGED <<input, now, pc, output, fileSize, caller, mode, lineCount,
                   convertedCount, wsBuffer, disk, needDrain, rlClosed, promise,
                   rsState, commandVars, batchVars, executeVars, listingVars, dbVars,
                   observerVars>>

NextPipeline ==
    \/ ConvertAndSave
    \/ ConvertCommand
    \/ OnLine
    \/ WriteCompleted
    \/ OnClose
    \/ WriteFinished

SpecPipeline == InitPipeline /\ [][NextPipeline]_vars

(***************************************************************************)
(* SpecFailures: the same pipeline when reading or writing can fail.       *)
(***************************************************************************)
\* writeStream.on('error', ...): a write to the destination (its opening
\* included) has failed.  The stream drops what it still held and destroys
\* itself.  The handler calls rl.close(): an open readline pauses its input,
\* which stays open, and emits 'close' at once, so the close handler runs
\* inside the call and resolves the promise; the reject that follows finds
\* the promise settled.  When readline is closed already, rl.close() does
\* nothing and reject is reached.
OnWriteError ==
    /\ pc \in {"streaming", "done"}
    /\ wsState \in {"open", "ending"}
    /\ wsBuffer # <<>>
    /\ wsState' = "errored"
    /\ wsBuffer' = <<>>
    /\ rlClosed' = TRUE
    /\ stdout' = IF rlClosed THEN stdout ELSE Append(stdout, TotalMessage(lineCount))
    /\ promise' = IF promise # "pending" THEN promise
                  ELSE IF rlClosed THEN "rejected" ELSE "resolved"
    /\ pc' = "done"
    /\ UNCHANGED <<input, now, output, fileSize, caller, mode, lineCount,
                   convertedCount, disk, needDrain, rsState, commandVars, batchVars,
                   executeVars, listingVars, dbVars, lineBase, ioLog, lingering>>

\* rl.on('error', ...), on a runtime whose readline passes on the 'error'
\* of its input: the read stream has failed (at open or later) and has
\* destroyed itself; the handler destroys the write stream and rejects.
\* Readline itself is not closed: 'end' never comes.
OnReadlineError ==
    /\ pc = "streaming"
    /\ ~rlClosed
    /\ rsState = "open"
    /\ rsState' = "errored"
    /\ wsState' = "destroyed"
    /\ wsBuffer' = <<>>
    /\ promise' = IF promise = "pending" THEN "rejected" ELSE promise
    /\ pc' = "readFailed"
    /\ UNCHANGED <<input, now, output, fileSize, caller, mode, lineCount,
                   convertedCount, disk, needDrain, rlClosed, commandVars, batchVars,
                   executeVars, listingVars, dbVars, observerVars>>

\* The same failure on a runtime whose readline does not listen for the
\* 'error' of its input: the read stream has no 'error' listener of its
\* own, the event is an uncaught exception and the process ends with the
\* promise pending; what the write stream held is lost.
UncaughtReadError ==
    /\ pc = "streaming"
    /\ ~rlClosed
    /\ rsState = "open"
    /\ rsState' = "errored"
    /\ wsState' = "destroyed"
    /\ wsBuffer' = <<>>
    /\ pc' = "crashed"
    /\ UNCHANGED <<input, now, output, fileSize, caller, mode, lineCount,
                   convertedCount, disk, needDrain, rlClosed, promise, commandVars,
                   batchVars, executeVars, listingVars, dbVars, observerVars>>

\* statSync throws: the size of the source is not known and neither branch
\* is entered.
StatFails ==
    /\ ioLog' = CallsUntilFailure(1)
    /\ pc' = "failed"
    /\ UNCHANGED <<input, now, output, fileSize, caller, mode, lineCount,
                   convertedCount, wsBuffer, disk, needDrain, rlClosed, wsState,
                   promise, rsState, commandVars, batchVars, executeVars,
                   listingVars, dbVars, stdout, lineBase, lingering>>

\* What a writeFileSync that throws can leave in the destination: nothing
\* (not opened, or opened and emptied) or a beginning of the text.
PartialWrites(content) == {<<>>, <<SubSeq(content, 1, Len(content) \div 2)>>}

\* A small-file branch that reads a second time when the first read throws.
BufferedFailsAfterRetry ==
    /\ mode' = "buffered"
    /\ ioLog' = CallsUntilFailure(2) \o <<[call |-> "readFileSync", ok |-> FALSE]>>
    /\ pc' = "failed"
    /\ UNCHANGED <<input, now, output, fileSize, caller, lineCount, convertedCount,
                   wsBuffer, disk, needDrain, rlClosed, wsState, promise, rsState,
                   commandVars, batchVars, executeVars, listingVars, dbVars,
                   stdout, lineBase, lingering>>

\* The small-file branch when readFileSync or writeFileSync throws: after
\* a failed read nothing is converted or written; a failed write comes
\* after the conversion.
BufferedFails ==
    /\ mode' = "buffered"
    /\ \E k \in {2, 3} :
          /\ ioLog' = CallsUntilFailure(k)
          /\ IF FsCalls[k] = "readFileSync"
             THEN UNCHANGED <<output, disk>>
             ELSE /\ output' = convertToMySQL(input, now)
                  /\ disk' \in PartialWrites(convertToMySQL(input, now))
    /\ pc' = "failed"
    /\ UNCHANGED <<input, now, fileSize, caller, lineCount, convertedCount,
                   wsBuffer, needDrain, rlClosed, wsState, promise, rsState,
                   commandVars, batchVars, executeVars, listingVars, dbVars,
                   stdout, lineBase, lingering>>

\* convertAndSave when statSync throws or the small file cannot be read or
\* written: the catch returns {success: false, message}.
ConvertAndSaveFails ==
    /\ pc = "start"
    /\ caller = "convertAndSave"
    /\ \/ StatFails
       \/ ~ConvertAndSaveUsesStreaming(fileSize) /\ BufferedFails

\* The convert command when statSync throws or the small file cannot be
\* read or written: the catch prints the error and exits with code 1.
ConvertCommandFails ==
    /\ pc = "start"
    /\ caller = "convert"
    /\ \/ StatFails
       \/ /\ ~ConvertCommandUsesStreaming(fileSize)
          /\ BufferedFails
          /\ options.preview => ioLog' = CallsUntilFailure(2)

NextFailures ==
    \/ ConvertAndSave
    \/ ConvertCommand
    \/ OnLine
    \/ WriteCompleted
    \/ OnClose
    \/ WriteFinished
    \/ OnWriteError
    \/ OnReadlineError
    \/ UncaughtReadError
    \/ ConvertAndSaveFails
    \/ ConvertCommandFails

SpecFailures == InitPipeline /\ [][NextFailures]_vars

(***************************************************************************)
(* Properties of the buffered conversion (checked under Spec).             *)
(***************************************************************************)
\* The converted text without the header.
ConvertedBody == SubSeq(output, Len(header(now)) + 1, Len(output))

Contains(text, sub) ==
    \E i \in 1..(Len(text) + 1 - Len(sub)) : SubSeq(text, i, i + Len(sub) - 1) = sub

HasBracket(text) == \E i \in DOMAIN text : text[i] \in {"[", "]"}

\* rule8(rule7(...rule1(text))), written out.
RuleComposition(text) ==
    Replace(Replace(Replace(Replace(Replace(Replace(Replace(Replace(text,
        conversions[1]), conversions[2]), conversions[3]), conversions[4]),
        conversions[5]), conversions[6]), conversions[7]), conversions[8])

\* C1: the converted body is the eight rules applied in their declared
\* order, each to the text the previous rules produced; the loop of the
\* line handler does the same to each line.
C1_RulesAppliedInDeclaredOrder ==
    pc = "converted" =>
        /\ Len(conversions) = 8
        /\ ConvertedBody = RuleComposition(input)
        /\ \A k \in DOMAIN ReadlineLines(input) :
              ConvertLine(ReadlineLines(input)[k]).convertedLine
                  = RuleComposition(ReadlineLines(input)[k])

\* A bracket rule uncovers NEWID(), which a later rule then rewrites.
C1_Witness ==
    /\ pc = "converted"
    /\ input = <<"[", "N", "E", "W", "I", "D", "(", ")", "]">>
    /\ ConvertedBody = S_UUID

\* C2: a SELECT TOP n [col] FROM [dbo].[tab] statement loses its brackets
\* and the dbo prefix and has TOP n replaced in place by LIMIT n, nothing
\* else changed; the spec's and the README's examples convert as shown.
C2_ExamplesConvertAsDocumented ==
    pc = "converted" =>
        /\ \A n \in ExampleCounts, col \in ExampleNames, tab \in ExampleNames :
              input = SelectTopStatement(n, col, tab)
                  => ConvertedBody = SelectLimitStatement(n, col, tab)
        /\ input = SpecExampleInput => ConvertedBody = SpecExampleBody
        /\ input = ReadmeInput => ConvertedBody = ReadmeBody

C2_Witness ==
    /\ pc = "converted"
    /\ input = ReadmeInput
    /\ ConvertedBody = ReadmeBody

\* text has [schema].[name] at p, schema and name being words.
QualifiedAt(text, p) ==
    /\ text[p] = "["
    /\ LET a == RunLength("w", text, p + 1)
       IN  /\ a >= 1
           /\ p + a + 3 <= Len(text)
           /\ SubSeq(text, p + a + 1, p + a + 3) = <<"]", ".", "[">>
           /\ LET b == RunLength("w", text, p + a + 4)
              IN  /\ b >= 1
                  /\ p + a + b + 4 <= Len(text)
                  /\ text[p + a + b + 4] = "]"

QualifiedSchema(text, p) == SubSeq(text, p + 1, p + RunLength("w", text, p + 1))
QualifiedName(text, p) ==
    LET q == p + RunLength("w", text, p + 1) + 4
    IN  SubSeq(text, q, q + RunLength("w", text, q) - 1)
QualifiedEnd(text, p) ==
    LET q == p + RunLength("w", text, p + 1) + 4
    IN  q + RunLength("w", text, q)
TextBefore(text, p) == SubSeq(text, 1, p - 1)
TextAfter(text, p) == SubSeq(text, QualifiedEnd(text, p) + 1, Len(text))

\* The identifier at p holds the only brackets of text.
OnlyQualifiedAt(text, p) ==
    /\ QualifiedAt(text, p)
    /\ ~HasBracket(TextBefore(text, p))
    /\ ~HasBracket(TextAfter(text, p))

HasUpper(text) == \E i \in DOMAIN text : text[i] \in Upper

ContainsIgnoringCase(text, sub) ==
    \E i \in 1..(Len(text) + 1 - Len(sub)) :
        \A j \in DOMAIN sub : Canonicalize(text[i + j - 1]) = Canonicalize(sub[j])

\* C4: TOP n is rewritten in any letter case, the function rules only in
\* upper case: a text without upper-case letters, brackets and the TOP
\* keyword is left as it is.
C4_CaseAsymmetry ==
    pc = "converted" =>
        /\ \A kw \in TopKeywords, n \in ExampleCounts :
              input = TopExample(kw, n) => ConvertedBody = <<"L", "I", "M", "I", "T", " ">> \o n
        /\ input = S_NEWID => ConvertedBody = S_UUID
        /\ input = S_GETDATE => ConvertedBody = S_NOW
        /\ input = S_newid => ConvertedBody = S_newid
        /\ input = S_getdate => ConvertedBody = S_getdate
        /\ input = MixedCaseInput => ConvertedBody = MixedCaseBody
        /\ (~HasUpper(input) /\ ~HasBracket(input)
                /\ ~ContainsIgnoringCase(input, <<"T", "O", "P">>))
              => ConvertedBody = input

C4_Witness ==
    /\ pc = "converted"
    /\ input = MixedCaseInput
    /\ ConvertedBody = MixedCaseBody

\* Some [ follows a [ with no ] in between.
NestedBrackets(text) ==
    \E i, j \in DOMAIN text :
        /\ i < j
        /\ text[i] = "["
        /\ text[j] = "["
        /\ \A k \in (i + 1)..(j - 1) : text[k] # "]"

\* C5 as claimed: a second pass changes nothing, whatever the text.
C5_FixedPointForEveryText ==
    pc = "converted" => ApplyConversions(ConvertedBody) = ConvertedBody

\* C5: a second pass changes nothing when no bracket of the text is opened
\* inside another.
C5_FixedPointWithoutNestedBrackets ==
    (pc = "converted" /\ ~NestedBrackets(input))
        => ApplyConversions(ConvertedBody) = ConvertedBody

C5_Witness ==
    /\ pc = "converted"
    /\ ~NestedBrackets(input)
    /\ HasBracket(input)
    /\ ConvertedBody # input
    /\ ApplyConversions(ConvertedBody) = ConvertedBody

(***************************************************************************)
(* Properties of the pipeline (checked under SpecPipeline).                *)
(***************************************************************************)
\* C6: streaming is chosen exactly when the size exceeds 50 x 1024 x 1024
\* = 52,428,800 bytes, by the convert command and by convertAndSave alike;
\* nothing but the size decides.
C6_ModeIsFunctionOfSize ==
    pc # "start" =>
        mode = IF fileSize > 52428800 THEN "streaming" ELSE "buffered"

\* A file of exactly the threshold size is converted in memory.
C6_Witness ==
    /\ pc # "start"
    /\ caller = "convertAndSave"
    /\ fileSize = 52428800
    /\ mode = "buffered"

\* The three comment lines of the provenance header.
MarkerLine ==
    <<"-", "-", " ", "C", "o", "n", "v", "e", "r", "t", "e", "d", " ", "f", "r", "o",
          "m", " ", "S", "Q", "L", " ", "S", "e", "r", "v", "e", "r", " ", "t", "o", " ",
          "M", "y", "S", "Q", "L">>
TimestampLine(timestamp) ==
    <<"-", "-", " ", "G", "e", "n", "e", "r", "a", "t", "e", "d", " ", "o", "n", ":",
          " ">> \o timestamp
CautionLine ==
    <<"-", "-", " ", "U", "s", "e", " ", "w", "i", "t", "h", " ", "c", "a", "u", "t",
          "i", "o", "n", " ", "a", "n", "d", " ", "v", "e", "r", "i", "f", "y", " ", "b",
          "e", "f", "o", "r", "e", " ", "e", "x", "e", "c", "u", "t", "i", "n", "g">>

\* All that has been written to the output so far.
WrittenChunks == disk \o wsBuffer
WrittenText == Concat(WrittenChunks)

\* C7: in either mode the output begins with the three comment lines
\* (marker, timestamp, caution) and one blank line, the same text in both
\* modes for the same timestamp.
C7_HeaderInBothModes ==
    pc # "start" =>
        LET lines == SplitLines(WrittenText)
        IN  /\ Len(lines) >= 5
            /\ lines[1] = MarkerLine
            /\ lines[2] = TimestampLine(now)
            /\ lines[3] = CautionLine
            /\ lines[4] = <<>>
            /\ \A i \in 1..3 : SubSeq(lines[i], 1, 2) = <<"-", "-">>
            /\ WrittenChunks[1] = IF mode = "streaming"
                                  THEN header(now)
                                  ELSE header(now) \o ConvertedBody

C7_Witness ==
    /\ mode = "streaming"
    /\ lineCount >= 1
    /\ disk # <<>>
    /\ SplitLines(Concat(disk))[4] = <<>>

\* The text with every line terminator written as \n and the trailing
\* ones removed.
RECURSIVE StripTrailingNewlines(_)
StripTrailingNewlines(text) ==
    IF text # <<>> /\ text[Len(text)] = "\n"
    THEN StripTrailingNewlines(SubSeq(text, 1, Len(text) - 1))
    ELSE text

RECURSIVE UnixNewlinesFrom(_, _)
UnixNewlinesFrom(text, i) ==
    LET returns == {e \in i..Len(text) : text[e] = "\r"}
    IN  IF returns = {} THEN SubSeq(text, i, Len(text))
        ELSE LET e == Least(returns)
                 crlf == e < Len(text) /\ text[e + 1] = "\n"
             IN  SubSeq(text, i, e - 1) \o <<"\n">>
                 \o UnixNewlinesFrom(text, IF crlf THEN e + 2 ELSE e + 1)

NormalizeNewlines(text) == StripTrailingNewlines(UnixNewlinesFrom(text, 1))

\* The streamed output file without its header.
StreamedBody ==
    SubSeq(Concat(disk), Len(streamingHeader(now)) + 1, Len(Concat(disk)))

\* C8: the finished streamed body and the buffered body of the same text
\* differ at most in their line terminators and trailing newlines.
C8_ModeEquivalence ==
    (mode = "streaming" /\ wsState = "finished") =>
        NormalizeNewlines(StreamedBody) = NormalizeNewlines(ApplyConversions(input))

\* C9: while the write stream asks for 'drain', no further line is handled.
C9_BackpressureObserved ==
    [][needDrain => lineCount' = lineCount]_vars

CountOf(c, text) == Cardinality({i \in DOMAIN text : text[i] = c})

\* C10: after the header, the k-th chunk written is the conversion of the
\* k-th input line and one line terminator; at the end of the input every
\* line has been written, and the finished file holds them all in order.
C10_OneOutputLinePerInputLineInOrder ==
    mode = "streaming" =>
        LET lines == ReadlineLines(input)
        IN  /\ Len(WrittenChunks) = lineCount + 1
            /\ lineCount <= Len(lines)
            /\ \A k \in 1..lineCount :
                  /\ WrittenChunks[k + 1] = RuleComposition(lines[k]) \o <<"\n">>
                  /\ CountOf("\n", WrittenChunks[k + 1]) = 1
            /\ rlClosed => lineCount = Len(lines)
            /\ wsState = "finished" => Len(disk) = Len(lines) + 1

C10_Witness ==
    /\ mode = "streaming"
    /\ wsState = "finished"
    /\ lineCount >= 2
    /\ convertedCount >= 1
    /\ Len(disk) = lineCount + 1

(***************************************************************************)
(* Properties of the failing pipeline (checked under SpecFailures).        *)
(***************************************************************************)
\* The promise has been resolved with {success: true, ...}.
ReportedSuccess ==
    \/ promise = "resolved"
    \/ mode = "buffered" /\ pc = "done" /\ ~options.preview

\* The caller has been told of a failure: a rejected promise, or
\* {success: false} (exit code 1 for the convert command).
ReportedFailure ==
    \/ promise = "rejected"
    \/ pc = "failed"

\* C11: a streaming run in which a write failed is never reported as a
\* success.
C11_WriteErrorNeverReportedAsSuccess ==
    wsState = "errored" => promise # "resolved"

\* C12: when the read stream has failed, the write stream is destroyed and
\* the promise is rejected.
C12_ReadErrorRejects ==
    rsState = "errored" => (wsState = "destroyed" /\ promise = "rejected")

\* Nothing more can happen to the conversion: it has left its handlers and
\* the write stream has nothing left to write or to finish.
AtRest ==
    /\ pc \notin {"start", "streaming"}
    /\ wsState \notin {"open", "ending"}

\* C13: when a streaming conversion has come to rest, neither the read
\* stream nor the write stream is open.
C13_StreamsReleasedOnEveryExit ==
    (mode = "streaming" /\ AtRest)
        => (rsState # "open" /\ wsState \notin {"open", "ending"})

\* C14: when the promise is resolved, the write stream has finished and
\* holds nothing.
C14_SuccessOnlyAfterFinish ==
    promise = "resolved" => (wsState = "finished" /\ wsBuffer = <<>>)

\* The line after the first k rules.
RECURSIVE TextAfterRules(_, _)
TextAfterRules(line, k) ==
    IF k = 0 THEN line
    ELSE LET before == TextAfterRules(line, k - 1)
         IN  IF before = <<>> THEN <<>> ELSE Replace(before, conversions[k])

\* Some rule matches the line as the rules before it have left it.
SomeRuleMatches(line) ==
    \E k \in DOMAIN conversions :
        MatchCount(TextAfterRules(line, k - 1), conversions[k]) > 0

\* The lines among the first n of the source that the conversion changes.
ChangedLines(n) ==
    {k \in 1..n : ApplyConversions(ReadlineLines(input)[k]) # ReadlineLines(input)[k]}

\* C15: at every point convertedCount is the number of handled lines that
\* the conversion changes, which are the lines some rule matches, and it
\* never exceeds lineCount; when the promise is resolved and no write has
\* failed, lineCount is the number of lines of the source.
C15_SummaryCountsExact ==
    mode = "streaming" =>
        /\ lineCount <= Len(ReadlineLines(input))
        /\ convertedCount <= lineCount
        /\ convertedCount = Cardinality(ChangedLines(lineCount))
        /\ \A k \in 1..lineCount :
              (k \in ChangedLines(lineCount)) = SomeRuleMatches(ReadlineLines(input)[k])
        /\ (promise = "resolved" /\ wsState # "errored")
              => lineCount = Len(ReadlineLines(input))

C15_Witness ==
    /\ promise = "resolved"
    /\ wsState = "finished"
    /\ lineCount = 3
    /\ convertedCount = 1

\* What the destination holds when the whole input has been converted.
RECURSIVE StreamedChunks(_)
StreamedChunks(lines) ==
    IF lines = <<>> THEN <<>>
    ELSE <<LineChunk(ConvertLine(Head(lines)).convertedLine)>>
         \o StreamedChunks(Tail(lines))

CompleteOutput ==
    IF mode = "streaming"
    THEN streamingHeader(now) \o Concat(StreamedChunks(ReadlineLines(input)))
    ELSE convertToMySQL(input, now)

\* C17: once a conversion has come to rest, a reported success means the
\* destination holds the complete output, and an incomplete destination
\* means a reported failure.
C17_NoPartialSuccess ==
    (AtRest /\ ~options.preview) =>
        /\ ReportedSuccess => Concat(disk) = CompleteOutput
        /\ Concat(disk) # CompleteOutput => ReportedFailure

(***************************************************************************)
(* SpecBatch: the batch command, one convertAndSave per file of the        *)
(* directory, files that fail included.                                    *)
(***************************************************************************)
MaxBatchFiles == 3

\* Contents and stat sizes of the files of the directory.
BatchInputs == {<<"[", "c", "]", "\n">>, <<"x">>}

BatchFileSizes == {52428800, 52428801}

BatchFiles == [input : BatchInputs, fileSize : BatchFileSizes]

\* What readdirSync and the .sql filter leave: up to MaxBatchFiles files.
BatchDirectories == UNION {[1..n -> BatchFiles] : n \in 0..MaxBatchFiles}

\* The batch action up to its loop: the files are listed and the counts
\* are zero; with no file it returns at once.
InitBatch ==
    /\ files \in BatchDirectories
    /\ now \in Timestamps
    /\ fileIndex = (IF files = <<>> THEN 0 ELSE 1)
    /\ input = (IF files = <<>> THEN <<>> ELSE files[1].input)
    /\ fileSize = (IF files = <<>> THEN 0 ELSE files[1].fileSize)
    /\ pc = (IF files = <<>> THEN "batchDone" ELSE "start")
    /\ caller = "convertAndSave"
    /\ output = <<>>
    /\ successCount = 0
    /\ errorCount = 0
    /\ batchLog = <<>>
    /\ PipelineIdle
    /\ options = NoOptions
    /\ CommandIdle
    /\ ExecuteIdle
    /\ ListingIdle
    /\ DatabaseIdle
    /\ ObserverIdle

\* The conversion of the file has met a failure.
ConversionFailed ==
    \/ wsState = "errored"
    \/ pc \in {"failed", "readFailed"}

\* The streams of the file at hand still hold something: the write stream
\* has data to write or its 'finish' to come, or the read stream is open.
StreamsAtWork ==
    \/ wsState \in {"open", "ending"}
    \/ rsState = "open"

\* The rest of the loop body after await converter.convertAndSave(...):
\* result.success counts as a success, success: false and a rejection count
\* as an error, and the loop goes on to the next file.  The await returns
\* as soon as the promise is settled; streams that are still at work are
\* left to the event loop.
BatchRecord ==
    /\ fileIndex >= 1
    /\ pc \in {"done", "failed", "readFailed"}
    /\ successCount' = IF ReportedSuccess THEN successCount + 1 ELSE successCount
    /\ errorCount' = IF ReportedSuccess THEN errorCount ELSE errorCount + 1
    /\ batchLog' = Append(batchLog,
                          [failed |-> ConversionFailed,
                           complete |-> Concat(disk) = CompleteOutput])
    /\ lingering' = IF StreamsAtWork
                    THEN Append(lingering, [file |-> fileIndex, wsState |-> wsState,
                                            wsBuffer |-> wsBuffer, rsState |-> rsState])
                    ELSE lingering
    /\ IF fileIndex < Len(files)
       THEN /\ fileIndex' = fileIndex + 1
            /\ input' = files[fileIndex + 1].input
            /\ fileSize' = files[fileIndex + 1].fileSize
            /\ pc' = "start"
            /\ output' = <<>>
            /\ mode' = "none"
            /\ lineCount' = 0
            /\ convertedCount' = 0
            /\ wsBuffer' = <<>>
            /\ disk' = <<>>
            /\ needDrain' = FALSE
            /\ rlClosed' = FALSE
            /\ wsState' = "none"
            /\ promise' = "none"
            /\ rsState' = "none"
            /\ ioLog' = <<>>
       ELSE /\ pc' = "batchDone"
            /\ wsState' = IF StreamsAtWork THEN "none" ELSE wsState
            /\ wsBuffer' = IF StreamsAtWork THEN <<>> ELSE wsBuffer
            /\ rsState' = IF StreamsAtWork THEN "none" ELSE rsState
            /\ UNCHANGED <<fileIndex, input, fileSize, output, mode, lineCount,
                           convertedCount, disk, needDrain, rlClosed, promise, ioLog>>
    /\ UNCHANGED <<now, caller, files, commandVars, executeVars, listingVars, dbVars,
                   stdout, lineBase>>

\* The steps that the streams of earlier files take while the process
\* lives, and what they leave alone.
LingeringFrame ==
    /\ pc # "crashed"
    /\ UNCHANGED <<input, now, pc, output, pipelineVars, commandVars, files,
                   fileIndex, successCount, errorCount, executeVars, listingVars,
                   dbVars, stdout, lineBase, ioLog>>

\* The file system has taken the oldest chunk that the write stream of an
\* earlier file still held.
LingeringWriteCompleted ==
    \E i \in DOMAIN lingering :
        /\ lingering[i].wsState \in {"open", "ending"}
        /\ lingering[i].wsBuffer # <<>>
        /\ lingering' = [lingering EXCEPT ![i].wsBuffer = Tail(@)]
        /\ UNCHANGED batchLog
        /\ LingeringFrame

\* The write stream of an earlier file has written all it held: 'finish'.
\* The output of that file is complete now.
LingeringWriteFinished ==
    \E i \in DOMAIN lingering :
        /\ lingering[i].wsState = "ending"
        /\ lingering[i].wsBuffer = <<>>
        /\ lingering' = [lingering EXCEPT ![i].wsState = "finished"]
        /\ batchLog' = [batchLog EXCEPT ![lingering[i].file].complete = TRUE]
        /\ LingeringFrame

\* A write of the stream of an earlier file fails: what it held is lost.
\* The error handler finds readline closed and the promise settled.
LingeringWriteError ==
    \E i \in DOMAIN lingering :
        /\ lingering[i].wsState \in {"open", "ending"}
        /\ lingering[i].wsBuffer # <<>>
        /\ lingering' = [lingering EXCEPT ![i].wsState = "errored", ![i].wsBuffer = <<>>]
        /\ batchLog' = [batchLog EXCEPT ![lingering[i].file].failed = TRUE]
        /\ LingeringFrame

NextBatch ==
    \/ ConvertAndSave
    \/ ConvertAndSaveFails
    \/ OnLine
    \/ WriteCompleted
    \/ OnClose
    \/ WriteFinished
    \/ OnWriteError
    \/ OnReadlineError
    \/ UncaughtReadError
    \/ BatchRecord
    \/ LingeringWriteCompleted
    \/ LingeringWriteFinished
    \/ LingeringWriteError

SpecBatch == InitBatch /\ [][NextBatch]_vars

\* The write stream of an earlier file has data to write or its 'finish'
\* to come.
LingeringAtWork(i) == lingering[i].wsState \in {"open", "ending"}

\* The files of the batch whose conversion met a failure.
FailedFiles == {i \in DOMAIN batchLog : batchLog[i].failed}

\* C16: when the batch loop ends, every file has been attempted once, the
\* failed files are the errors, the others are the successes, and every
\* file that did not fail has its complete output.
C16_BatchCountsFailuresApart ==
    (pc = "batchDone" /\ \A i \in DOMAIN lingering : ~LingeringAtWork(i)) =>
        /\ Len(batchLog) = Len(files)
        /\ successCount + errorCount = Len(files)
        /\ errorCount = Cardinality(FailedFiles)
        /\ successCount = Len(files) - Cardinality(FailedFiles)
        /\ \A i \in DOMAIN batchLog : ~batchLog[i].failed => batchLog[i].complete

(***************************************************************************)
(* SpecCommand: the convert command with its options --preview and         *)
(* --stats.                                                                *)
(***************************************************************************)
MaxPreviewInputLines == 22

\* Lines i..n of a source whose lines are single letters, the k-th in
\* brackets, joined by line feeds.
RECURSIVE LettersFrom(_, _, _)
LettersFrom(i, n, k) ==
    IF i > n THEN <<>>
    ELSE (IF i = k THEN <<"[", LowerSeq[i], "]">> ELSE <<LowerSeq[i]>>)
         \o (IF i < n THEN <<"\n">> ELSE <<>>)
         \o LettersFrom(i + 1, n, k)

PreviewInputs ==
    UNION {{LettersFrom(1, n, k) : k \in {0, 1, n}} : n \in 0..MaxPreviewInputLines}

MaxStatsFragments == 2

\* Short texts in which the rules meet.
StatsInputs ==
    {Concat(parts) : parts \in UNION {[1..n -> Fragments] : n \in 0..MaxStatsFragments}}

DboUsers == <<"[", "d", "b", "o", "]", ".", "[", "U", "s", "e", "r", "s", "]">>

CommandInputs == PreviewInputs \cup StatsInputs \cup ExampleTexts \cup {DboUsers}

InitCommand ==
    /\ input \in CommandInputs
    /\ now \in Timestamps
    /\ pc = "start"
    /\ output = <<>>
    /\ fileSize \in FileSizes
    /\ caller = "convert"
    /\ PipelineIdle
    /\ options \in [preview : BOOLEAN, stats : BOOLEAN]
    /\ CommandIdle
    /\ BatchIdle
    /\ ExecuteIdle
    /\ ListingIdle
    /\ DatabaseIdle
    /\ ObserverIdle

NextCommand ==
    \/ ConvertCommand
    \/ ConvertCommandFails
    \/ OnLine
    \/ WriteCompleted
    \/ OnClose
    \/ WriteFinished

SpecCommand == InitCommand /\ [][NextCommand]_vars

\* With --preview nothing is handed to a destination.
PreviewNeverWrites ==
    options.preview => (disk = <<>> /\ wsBuffer = <<>> /\ wsState = "none")

\* The lines of the converted input.
ConvertedInputLines == SplitLines(ApplyConversions(input))

Min(a, b) == IF a < b THEN a ELSE b

\* C18 as claimed: the preview of a small file is the first 20 converted
\* lines of the input.
C18_PreviewIsConvertedInput ==
    /\ PreviewNeverWrites
    /\ (options.preview /\ pc = "done" /\ mode = "buffered") =>
          /\ Len(preview) = Min(PreviewLineLimit, Len(ConvertedInputLines))
          /\ \A i \in DOMAIN preview : preview[i] = ConvertedInputLines[i]

\* C18: with --preview nothing is written, and the preview of a small file
\* is the first 20 lines of the converted output: the four lines of the
\* header, then the first 16 converted lines of the input, in order.
C18_PreviewIsHeaderAndConvertedInput ==
    /\ PreviewNeverWrites
    /\ (options.preview /\ pc = "done" /\ mode = "buffered") =>
          /\ Len(preview) = Min(PreviewLineLimit, 4 + Len(ConvertedInputLines))
          /\ preview[1] = MarkerLine
          /\ preview[2] = TimestampLine(now)
          /\ preview[3] = CautionLine
          /\ preview[4] = <<>>
          /\ \A i \in 5..Len(preview) : preview[i] = ConvertedInputLines[i - 4]
    /\ (options.preview /\ mode = "streaming") => preview = <<>>

C18_Witness ==
    /\ options.preview
    /\ pc = "done"
    /\ mode = "buffered"
    /\ Len(ConvertedInputLines) > PreviewLineLimit
    /\ Len(preview) = PreviewLineLimit
    /\ ApplyConversions(input) # input

\* The rules that change the original text.
MatchingRules == {k \in DOMAIN conversions : Replace(input, conversions[k]) # input}

\* The entry of conversionsApplied for rule k.
AppliedEntries(k) ==
    {j \in DOMAIN stats.conversionsApplied :
        stats.conversionsApplied[j].pattern = conversions[k].pattern}

\* The characters a match of the rule loses: 8 for [dbo].[name] -> name and
\* 2 for [name] -> name.
CharactersRemoved(k) == IF k = 1 THEN 8 ELSE 2

\* C19: the statistics count each rule's matches in the original text,
\* whatever the other rules do to it, take the line counts from the
\* original and from the converted text, and leave both texts alone.
C19_StatsCountMatchesInOriginal ==
    (pc = "done" /\ mode = "buffered" /\ options.stats /\ ~options.preview) =>
        /\ output = convertToMySQL(input, now)
        /\ stats.originalLines = Len(SplitLines(input))
        /\ stats.convertedLines = Len(SplitLines(output))
        /\ Len(stats.conversionsApplied) = Cardinality(MatchingRules)
        /\ \A k \in DOMAIN conversions :
              IF k \in MatchingRules
              THEN /\ Cardinality(AppliedEntries(k)) = 1
                   /\ \A j \in AppliedEntries(k) :
                         /\ stats.conversionsApplied[j].count >= 1
                         /\ k \in {1, 2} =>
                               stats.conversionsApplied[j].count * CharactersRemoved(k)
                                   = Len(input) - Len(Replace(input, conversions[k]))
                         /\ \A i \in 1..(j - 1) : \E h \in 1..(k - 1) : i \in AppliedEntries(h)
              ELSE AppliedEntries(k) = {}
        /\ input = DboUsers =>
              stats.conversionsApplied =
                  <<[pattern |-> conversions[1].pattern, count |-> 1],
                    [pattern |-> conversions[2].pattern, count |-> 2]>>

C19_Witness ==
    /\ pc = "done"
    /\ mode = "buffered"
    /\ options.stats
    /\ ~options.preview
    /\ input = DboUsers
    /\ Len(stats.conversionsApplied) = 2

(***************************************************************************)
(* SpecExecute: DatabaseManager.executeSQLFile over the text of a file.    *)
(***************************************************************************)
\* stmt.trim(): the text without its leading and trailing white space.
Trim(text) ==
    LET inked == {i \in DOMAIN text : text[i] \notin SpaceChars}
    IN  IF inked = {} THEN <<>>
        ELSE SubSeq(text,
                    CHOOSE i \in inked : \A j \in inked : i <= j,
                    CHOOSE i \in inked : \A j \in inked : j <= i)

\* sqlContent.split(';')
RECURSIVE SplitOnSemicolon(_)
SplitOnSemicolon(text) ==
    IF \A i \in DOMAIN text : text[i] # ";" THEN <<text>>
    ELSE LET first == CHOOSE i \in DOMAIN text :
                          /\ text[i] = ";"
                          /\ \A j \in 1..(i - 1) : text[j] # ";"
         IN  <<SubSeq(text, 1, first - 1)>>
             \o SplitOnSemicolon(SubSeq(text, first + 1, Len(text)))

\* .map(stmt => stmt.trim())
TrimEach(pieces) == [i \in DOMAIN pieces |-> Trim(pieces[i])]

NotEmpty(stmt) == Len(stmt) > 0

\* A plausible slip: the pieces are not trimmed before the empty ones are
\* dropped.
statementsOfUntrimmed(sqlContent) ==
    SelectSeq(SplitOnSemicolon(sqlContent), NotEmpty)

\* sqlContent.split(';').map(stmt => stmt.trim()).filter(stmt => stmt.length > 0)
statementsOf(sqlContent) ==
    SelectSeq(TrimEach(SplitOnSemicolon(sqlContent)), NotEmpty)

MaxStatementFragments == 4

StatementFragments == {<<";">>, <<" ">>, <<"\n">>, <<"a">>, <<"b">>}

\* Contents of the SQL file.
ExecuteInputs ==
    {Concat(parts) :
        parts \in UNION {[1..n -> StatementFragments] : n \in 0..MaxStatementFragments}}

InitExecute ==
    /\ input \in ExecuteInputs
    /\ now \in Timestamps
    /\ pc = "start"
    /\ output = <<>>
    /\ fileSize = 0
    /\ caller = "none"
    /\ PipelineIdle
    /\ options = NoOptions
    /\ CommandIdle
    /\ BatchIdle
    /\ ExecuteIdle
    /\ ListingIdle
    /\ DatabaseIdle
    /\ ObserverIdle

\* executeSQLFile up to its loop: the file is read, an empty file is an
\* error, the connection is made and the statements are split off.
ExecuteSQLFile ==
    /\ pc = "start"
    /\ executeResult = NoResult
    /\ IF Trim(input) = <<>>
       THEN /\ executeResult' = [NoResult EXCEPT !.outcome = "thrown"]
            /\ pc' = "done"
            /\ UNCHANGED statements
       ELSE /\ statements' = statementsOf(input)
            /\ pc' = "executing"
            /\ UNCHANGED executeResult
    /\ UNCHANGED <<input, now, output, pipelineVars, commandVars, batchVars,
                   executedCount, statementErrors, executionLog, listingVars, dbVars,
                   observerVars>>

\* The file is missing or cannot be read, or connect() fails: the error is
\* logged and thrown on.
ExecuteSQLFileFails ==
    /\ pc = "start"
    /\ executeResult = NoResult
    /\ executeResult' = [NoResult EXCEPT !.outcome = "thrown"]
    /\ pc' = "done"
    /\ UNCHANGED <<input, now, output, pipelineVars, commandVars, batchVars,
                   statements, executedCount, statementErrors, executionLog,
                   listingVars, dbVars, observerVars>>

\* The statement the loops stand at; the batches of 100 are slices of
\* statements taken in order.
NextStatement == executedCount + statementErrors + 1

\* await connection.execute(statement) succeeds.
ExecuteStatement ==
    /\ pc = "executing"
    /\ NextStatement <= Len(statements)
    /\ executedCount' = executedCount + 1
    /\ executionLog' = Append(executionLog,
                              [statement |-> statements[NextStatement], ok |-> TRUE])
    /\ UNCHANGED <<input, now, pc, output, pipelineVars, commandVars, batchVars,
                   statements, statementErrors, executeResult, listingVars, dbVars,
                   observerVars>>

\* await connection.execute(statement) throws: the error is counted and
\* logged and the loop continues.
ExecuteStatementFails ==
    /\ pc = "executing"
    /\ NextStatement <= Len(statements)
    /\ statementErrors' = statementErrors + 1
    /\ executionLog' = Append(executionLog,
                              [statement |-> statements[NextStatement], ok |-> FALSE])
    /\ UNCHANGED <<input, now, pc, output, pipelineVars, commandVars, batchVars,
                   statements, executedCount, executeResult, listingVars, dbVars,
                   observerVars>>

\* The loops are through: the summary is returned.
ExecuteReturn ==
    /\ pc = "executing"
    /\ NextStatement > Len(statements)
    /\ executeResult' = [outcome |-> "returned",
                         success |-> TRUE,
                         executedCount |-> executedCount,
                         errorCount |-> statementErrors,
                         totalStatements |-> Len(statements)]
    /\ pc' = "done"
    /\ UNCHANGED <<input, now, output, pipelineVars, commandVars, batchVars,
                   statements, executedCount, statementErrors, executionLog,
                   listingVars, dbVars, observerVars>>

NextExecute ==
    \/ ExecuteSQLFile
    \/ ExecuteSQLFileFails
    \/ ExecuteStatement
    \/ ExecuteStatementFails
    \/ ExecuteReturn

SpecExecute == InitExecute /\ [][NextExecute]_vars

\* The places just before and just after the pieces of the file: its
\* semicolons and its two ends.
Cuts == {0, Len(input) + 1} \cup {i \in DOMAIN input : input[i] = ";"}

\* The pieces between neighbouring cuts that hold more than white space,
\* as pairs of cuts.
InkedPieces ==
    {c \in Cuts \X Cuts :
        /\ c[1] < c[2]
        /\ \A i \in (c[1] + 1)..(c[2] - 1) : input[i] # ";"
        /\ \E i \in (c[1] + 1)..(c[2] - 1) : input[i] \notin SpaceChars}

\* The i-th of these pieces in file order is the one with i - 1 before it.
PieceOfStatement(i) ==
    CHOOSE c \in InkedPieces : Cardinality({d \in InkedPieces : d[1] < c[1]}) = i - 1

\* The statement is the piece without the white space around it.
IsTrimmedPiece(stmt, c) ==
    \E a, b \in (c[1] + 1)..(c[2] - 1) :
        /\ stmt = SubSeq(input, a, b)
        /\ input[a] \notin SpaceChars
        /\ input[b] \notin SpaceChars
        /\ \A i \in ((c[1] + 1)..(a - 1)) \cup ((b + 1)..(c[2] - 1)) :
              input[i] \in SpaceChars

\* C20: the statements are the pieces between semicolons that hold more
\* than white space, trimmed and in file order; they are executed one by
\* one in that order whether or not earlier ones failed, and the summary
\* returned has success true, executedCount the statements that succeeded
\* and executedCount + errorCount = totalStatements.
C20_EveryStatementExecutedAndCounted ==
    /\ pc = "executing" \/ executeResult.outcome = "returned" =>
          /\ Len(statements) = Cardinality(InkedPieces)
          /\ \A i \in DOMAIN statements :
                IsTrimmedPiece(statements[i], PieceOfStatement(i))
    /\ Len(executionLog) = executedCount + statementErrors
    /\ Len(executionLog) <= Len(statements)
    /\ \A i \in DOMAIN executionLog : executionLog[i].statement = statements[i]
    /\ executedCount = Cardinality({i \in DOMAIN executionLog : executionLog[i].ok})
    /\ executeResult.outcome = "thrown" => executionLog = <<>>
    /\ executeResult.outcome = "returned" =>
          /\ executeResult.success
          /\ Len(executionLog) = Len(statements)
          /\ executeResult.totalStatements = Len(statements)
          /\ executeResult.executedCount = executedCount
          /\ executeResult.errorCount = statementErrors
          /\ executeResult.executedCount + executeResult.errorCount
                = executeResult.totalStatements

C20_Witness ==
    /\ executeResult.outcome = "returned"
    /\ executeResult.success
    /\ executeResult.executedCount = 1
    /\ executeResult.errorCount = 1
    /\ Len(SplitOnSemicolon(input)) = 3
    /\ ~executionLog[1].ok

(***************************************************************************)
(* SpecListing: the batch command seen through the names of its files:     *)
(* which entries of the directory it converts and where it writes.         *)
(***************************************************************************)
\* String.prototype.toLowerCase, character by character.
ToLowerCase(c) ==
    IF c \in Upper THEN LowerSeq[CHOOSE i \in DOMAIN UpperSeq : UpperSeq[i] = c]
    ELSE c

toLowerCase(text) == [i \in DOMAIN text |-> ToLowerCase(text[i])]

\* String.prototype.endsWith
endsWith(text, suffix) ==
    /\ Len(suffix) <= Len(text)
    /\ SubSeq(text, Len(text) - Len(suffix) + 1, Len(text)) = suffix

DotSql == <<".", "s", "q", "l">>

\* path.basename(p, ext) on the last component of p: the extension is
\* taken off when the name ends with it and is longer than it.
basename(name, ext) ==
    IF endsWith(name, ext) /\ Len(name) > Len(ext)
    THEN SubSeq(name, 1, Len(name) - Len(ext))
    ELSE name

\* path.join(dir, name)
join(dir, name) == [dir |-> dir, name |-> name]

\* The directory the batch command is given.
Directory == "in"

\* A filter that applies the pattern "*<suffix>".
sqlFilesMatchingPattern(names) ==
    LET keep(file) == endsWith(file, Tail(pattern))
        kept == SelectSeq(names, keep)
    IN  [i \in DOMAIN kept |-> join(Directory, kept[i])]

\* fs.readdirSync(directory)
\*     .filter(file => file.toLowerCase().endsWith('.sql'))
\*     .map(file => path.join(directory, file))
sqlFiles(names) ==
    LET keep(file) == endsWith(toLowerCase(file), DotSql)
        kept == SelectSeq(names, keep)
    IN  [i \in DOMAIN kept |-> join(Directory, kept[i])]

\* `${filename}_mysql.sql` joined to the output directory.
outputFileOf(inputFile, dir) ==
    join(dir, basename(inputFile.name, DotSql) \o <<"_", "m", "y", "s", "q", "l">> \o DotSql)

MaxEntries == 2

ListingStems == {<<"a">>, <<"a", "_", "m", "y", "s", "q", "l">>, <<"a", ".", "S", "Q", "L">>}

ListingSuffixes == {DotSql, <<".", "S", "Q", "L">>, <<".", "S", "q", "l">>,
                    <<".", "t", "x", "t">>, <<>>}

\* Names of directory entries.
EntryNames == {stem \o suffix : stem \in ListingStems, suffix \in ListingSuffixes}

\* What readdirSync can return: distinct names in some order.
Directories ==
    {names \in UNION {[1..n -> EntryNames] : n \in 0..MaxEntries} :
        \A i, j \in DOMAIN names : i # j => names[i] # names[j]}

\* Values of --pattern; "*.sql" is the default.
Patterns == {<<"*">> \o DotSql, <<"*", ".", "t", "x", "t">>, <<"*", ".", "S", "Q", "L">>}

InitListing ==
    /\ entries \in Directories
    /\ pattern \in Patterns
    /\ outputDir \in {Directory, "out"}
    /\ selected = <<>>
    /\ conversionLog = <<>>
    /\ input = <<>>
    /\ now \in Timestamps
    /\ pc = "start"
    /\ output = <<>>
    /\ fileSize = 0
    /\ caller = "none"
    /\ PipelineIdle
    /\ options = NoOptions
    /\ CommandIdle
    /\ BatchIdle
    /\ ExecuteIdle
    /\ DatabaseIdle
    /\ ObserverIdle

\* The batch action up to its loop: the output directory is settled and
\* the files are listed; with no file the action returns.
BatchListFiles ==
    /\ pc = "start"
    /\ selected' = sqlFiles(entries)
    /\ pc' = IF sqlFiles(entries) = <<>> THEN "batchDone" ELSE "listed"
    /\ UNCHANGED <<input, now, output, pipelineVars, commandVars, batchVars,
                   executeVars, entries, pattern, outputDir, conversionLog, dbVars,
                   observerVars>>

\* One turn of the loop: the output path is made from the input path and
\* convertAndSave is called with the two; after the last file the action
\* returns.
BatchConvertFile ==
    /\ pc = "listed"
    /\ Len(conversionLog) < Len(selected)
    /\ LET inputFile == selected[Len(conversionLog) + 1]
       IN  conversionLog' =
               Append(conversionLog, [inputFile |-> inputFile,
                                      outputFile |-> outputFileOf(inputFile, outputDir)])
    /\ pc' = IF Len(conversionLog) + 1 = Len(selected) THEN "batchDone" ELSE "listed"
    /\ UNCHANGED <<input, now, output, pipelineVars, commandVars, batchVars,
                   executeVars, entries, pattern, outputDir, selected, dbVars,
                   observerVars>>

NextListing ==
    \/ BatchListFiles
    \/ BatchConvertFile

SpecListing == InitListing /\ [][NextListing]_vars

\* The name ends in ".sql" in some mix of cases.
EndsInSqlAnyCase(name) ==
    /\ Len(name) >= 4
    /\ name[Len(name) - 3] = "."
    /\ name[Len(name) - 2] \in {"s", "S"}
    /\ name[Len(name) - 1] \in {"q", "Q"}
    /\ name[Len(name)] \in {"l", "L"}

\* The places in the directory listing of the entries that end in ".sql".
SqlEntries == {i \in DOMAIN entries : EndsInSqlAnyCase(entries[i])}

C30_BatchOutputsNeverCollide ==
    /\ pc \in {"listed", "batchDone"} => selected = sqlFiles(entries)
    /\ \A k \in DOMAIN conversionLog :
          /\ conversionLog[k].outputFile.dir = outputDir
          /\ endsWith(conversionLog[k].inputFile.name, DotSql)
                => conversionLog[k].outputFile.name
                     = SubSeq(conversionLog[k].inputFile.name, 1,
                              Len(conversionLog[k].inputFile.name) - 4)
                       \o <<"_", "m", "y", "s", "q", "l">> \o DotSql
          /\ \A j \in DOMAIN selected : conversionLog[k].outputFile # selected[j]
          /\ \A j \in DOMAIN conversionLog :
                j # k => conversionLog[j].outputFile # conversionLog[k].outputFile

(***************************************************************************)
(* Empty sources (checked under SpecPipeline).                             *)
(***************************************************************************)
\* C22: a source that is empty or holds only white space is reported as an
\* error by the operation that consumes it: nothing is written to a
\* destination, nothing is handed to the database and the caller is told of
\* a failure.
C22_EmptySourceIsAnError ==
    (Trim(input) = <<>> /\ pc # "start") =>
        /\ disk = <<>>
        /\ wsBuffer = <<>>
        /\ executionLog = <<>>
        /\ ReportedFailure \/ executeResult.outcome = "thrown"

(***************************************************************************)
(* SpecProgress: a streaming conversion around the 10,000th and the        *)
(* 20,000th line of its source.  The source is lineBase lines "x", which   *)
(* have been read, converted and written, followed by the text in input.   *)
(***************************************************************************)
MaxProgressLines == 3

ProgressLines == {<<"x", "\n">>, <<"[", "c", "]", "\n">>}

\* The rest of the source: at most MaxProgressLines lines.
ProgressInputs ==
    {Concat(parts) : parts \in UNION {[1..n -> ProgressLines] : n \in 0..MaxProgressLines}}

\* How many lines have gone before: none, or enough for the next lines to
\* reach a multiple of ProgressInterval.
LineBases == {0, ProgressInterval - 2, 2 * ProgressInterval - 1}

\* What the line handler writes for a line "x".
BaseChunk == LineChunk(ConvertLine(<<"x">>).convertedLine)

\* What the line handler has written for n lines "x".
BaseChunks(n) == [i \in 1..n |-> BaseChunk]

\* What the line handler has printed while it handled n lines.
ProgressMessages(n) ==
    [i \in 1..(n \div ProgressInterval) |-> ProgressMessage(i * ProgressInterval)]

InitProgress ==
    /\ input \in ProgressInputs
    /\ now \in Timestamps
    /\ lineBase \in LineBases
    /\ pc = "streaming"
    /\ output = <<>>
    /\ fileSize = 52428801
    /\ caller = "convertAndSave"
    /\ mode = "streaming"
    /\ lineCount = lineBase
    /\ convertedCount = 0
    /\ wsBuffer = <<>>
    /\ disk = <<streamingHeader(now)>> \o BaseChunks(lineBase)
    /\ needDrain = FALSE
    /\ rlClosed = FALSE
    /\ wsState = "open"
    /\ promise = "pending"
    /\ rsState = "open"
    /\ stdout = ProgressMessages(lineBase)
    /\ ioLog = <<>>
    /\ lingering = <<>>
    /\ options = NoOptions
    /\ CommandIdle
    /\ BatchIdle
    /\ ExecuteIdle
    /\ ListingIdle
    /\ DatabaseIdle

NextProgress ==
    \/ OnLine
    \/ WriteCompleted
    \/ OnClose
    \/ WriteFinished
    \/ OnWriteError
    \/ OnReadlineError
    \/ UncaughtReadError

SpecProgress == InitProgress /\ [][NextProgress]_vars

\* The chunks handed to the destination after the header and the chunks of
\* the first lineBase lines.
ChunksPastBase == SubSeq(disk, lineBase + 2, Len(disk)) \o wsBuffer

\* The destination has been handed the header, then one chunk per line
\* read, in the order of the lines, and nothing else.
DestinationHoldsDataOnly ==
    /\ Len(disk) >= lineBase + 1
    /\ disk[1] = streamingHeader(now)
    /\ \A i \in 2..(lineBase + 1) : disk[i] = BaseChunk
    /\ Len(ChunksPastBase) <= Len(ReadlineLines(input))
    /\ ChunksPastBase
          = SubSeq(StreamedChunks(ReadlineLines(input)), 1, Len(ChunksPastBase))

\* C25: the line handler has printed one progress message for every
\* positive multiple of 10,000 that the line count has reached, each with
\* that count, and nothing else; the close handler prints the total once,
\* with the count it stands at, and at the end of the input that is the
\* number of lines of the source; the destination is handed the header and
\* the converted lines only.
C25_ProgressEveryTenThousandLines ==
    /\ stdout = ProgressMessages(lineCount)
                  \o (IF rlClosed THEN <<TotalMessage(lineCount)>> ELSE <<>>)
    /\ \A i \in DOMAIN stdout :
          stdout[i].kind = "progress"
              => /\ stdout[i].lineCount > 0
                 /\ stdout[i].lineCount % 10000 = 0
                 /\ stdout[i].lineCount <= lineCount
    /\ Cardinality({i \in DOMAIN stdout : stdout[i].kind = "progress"})
          = Cardinality({n \in 1..lineCount : n % 10000 = 0})
    /\ (rsState = "closed")
          => /\ lineCount = lineBase + Len(ReadlineLines(input))
             /\ stdout[Len(stdout)] = TotalMessage(lineCount)
    /\ DestinationHoldsDataOnly

\* The 20,000th line has been handled and the input has ended two lines
\* later: two progress messages and the total.
C25_Witness ==
    /\ lineBase = 19999
    /\ lineCount = 20001
    /\ wsState = "finished"
    /\ stdout = <<ProgressMessage(10000), ProgressMessage(20000), TotalMessage(20001)>>

(***************************************************************************)
(* The place of the header in the streamed output (checked under           *)
(* SpecFailures).                                                          *)
(***************************************************************************)
\* C23: in streaming mode what the destination holds, and what the stream
\* holds for it, is a beginning of: the header, then the converted lines in
\* the order of the source.  While the stream is at work the header has
\* been handed over together with one chunk per line, so no line comes
\* before the header or inside it.
C23_HeaderBeforeAnyLine ==
    mode = "streaming" =>
        LET all == <<streamingHeader(now)>> \o StreamedChunks(ReadlineLines(input))
        IN  /\ Len(WrittenChunks) <= Len(all)
            /\ WrittenChunks = SubSeq(all, 1, Len(WrittenChunks))
            /\ disk # <<>> => disk[1] = streamingHeader(now)
            /\ wsState \in {"open", "ending"}
                  => Len(WrittenChunks) = lineCount + 1
            /\ \A i \in DOMAIN disk :
                  i > 1 => disk[i] = LineChunk(ConvertLine(ReadlineLines(input)[i - 1]).convertedLine)

\* Two lines have followed the header to the destination.
C23_Witness ==
    /\ mode = "streaming"
    /\ wsState = "finished"
    /\ Len(disk) = 3
    /\ disk[1] = streamingHeader(now)
    /\ disk[2] # disk[3]

(***************************************************************************)
(* Failures of the buffered convertAndSave (checked under SpecFailures).   *)
(***************************************************************************)
\* convertAndSave has returned from its buffered branch or from its catch.
BufferedSaveReturned ==
    /\ caller = "convertAndSave"
    /\ mode # "streaming"
    /\ pc # "start"

\* C26: a convertAndSave that does not stream always returns a result and
\* never an exception; it makes each of its fs calls at most once, in the
\* order stat, read, write, and stops at the first that throws; it returns
\* success: false exactly when a call has thrown; and when the stat or the
\* read has thrown, no write has been tried and the destination is as it
\* was.
C26_BufferedFailureIsReturnedOnce ==
    BufferedSaveReturned =>
        /\ pc \in {"done", "failed"}
        /\ promise = "none"
        /\ Len(ioLog) \in 1..3
        /\ \A i \in DOMAIN ioLog :
              /\ ioLog[i].call = FsCalls[i]
              /\ i < Len(ioLog) => ioLog[i].ok
        /\ (pc = "failed") = ~ioLog[Len(ioLog)].ok
        /\ pc = "done" => (Len(ioLog) = 3 /\ disk = <<convertToMySQL(input, now)>>)
        /\ (pc = "failed" /\ Len(ioLog) < 3)
              => (disk = <<>> /\ wsBuffer = <<>> /\ wsState = "none")

\* The read has thrown: success: false, and the destination is untouched.
C26_Witness ==
    /\ BufferedSaveReturned
    /\ pc = "failed"
    /\ ioLog = <<[call |-> "statSync", ok |-> TRUE], [call |-> "readFileSync", ok |-> FALSE]>>
    /\ disk = <<>>

(***************************************************************************)
(* SpecSettle: the failing pipeline on sources of a few lines, when every  *)
(* event that can happen does happen in the end: the event loop goes on    *)
(* delivering lines, completing writes and emitting 'close', 'finish' and  *)
(* 'error'.                                                                *)
(***************************************************************************)
MaxSettleLines == 2

SettleInputs ==
    {Concat(parts) : parts \in UNION {[1..n -> ProgressLines] : n \in 0..MaxSettleLines}}

InitSettle ==
    /\ input \in SettleInputs
    /\ now \in Timestamps
    /\ pc = "start"
    /\ output = <<>>
    /\ fileSize \in FileSizes
    /\ caller \in {"convert", "convertAndSave"}
    /\ PipelineIdle
    /\ options = NoOptions
    /\ CommandIdle
    /\ BatchIdle
    /\ ExecuteIdle
    /\ ListingIdle
    /\ DatabaseIdle
    /\ ObserverIdle

\* readline emits 'line': the step of the line handler as lineCount shows
\* it.  Among the steps of NextFailures these are the steps of OnLine, and
\* the two are enabled in the same states.
LineEvent ==
    /\ pc = "streaming"
    /\ ~rlClosed
    /\ lineCount - lineBase < Len(ReadlineLines(input))
    /\ lineCount' = lineCount + 1

\* The events that are sure to come while they can: the next line or the
\* end of the input, the completion of a write, 'finish'.
SettleFairness ==
    /\ WF_lineCount(LineEvent)
    /\ WF_vars(OnClose)
    /\ WF_vars(WriteCompleted)
    /\ WF_vars(WriteFinished)

SpecSettle == InitSettle /\ [][NextFailures]_vars /\ SettleFairness

\* The promise of convertLargeFileStreaming has been resolved or rejected.
Settled == promise \in {"resolved", "rejected"}

\* C27: a settled promise keeps its outcome, and a promise that has been
\* created is settled in the end.
C27_PromiseSettlesOnceAndEventually ==
    /\ [][Settled => promise' = promise]_vars
    /\ [](promise = "pending" => <>Settled)

(***************************************************************************)
(* The order of the conversions of a batch (checked under SpecBatch).      *)
(***************************************************************************)
\* The conversion of an earlier file still holds an open source or
\* destination or has output that is not written yet.
LingeringInProgress(i) ==
    \/ LingeringAtWork(i)
    \/ lingering[i].wsBuffer # <<>>
    \/ lingering[i].rsState = "open"

\* C24: while the conversion of a file of the batch is under way, the
\* conversion of no earlier file is in progress: the loop has gone on to a
\* file only when the streams of the files before it are closed and their
\* output is written.
C24_BatchFilesOneAtATime ==
    \A i \in DOMAIN lingering :
        (lingering[i].file < fileIndex /\ pc \notin {"start", "batchDone"})
            => ~LingeringInProgress(i)

(***************************************************************************)
(* SpecDatabase: the DatabaseManager.  connect() is called by query,       *)
(* testConnection, getDatabaseInfo and executeSQLFile, possibly while an   *)
(* earlier call is still awaiting; close() awaits the end of the           *)
(* connection and of the pool.                                             *)
(***************************************************************************)
MaxCallers == 2

MaxConnections == 3

MaxPools == 2

Callers == 1..MaxCallers

\* A caller that is not inside connect() and holds no connection.
IdleCaller == [pc |-> "idle", held |-> 0]

InitDatabase ==
    /\ connection = 0
    /\ pool = 0
    /\ sessions = <<>>
    /\ pools = <<>>
    /\ callers = [c \in Callers |-> IdleCaller]
    /\ closer = [pc |-> "idle", target |-> 0]
    /\ input = <<>>
    /\ now \in Timestamps
    /\ pc = "start"
    /\ output = <<>>
    /\ fileSize = 0
    /\ caller = "none"
    /\ PipelineIdle
    /\ options = NoOptions
    /\ CommandIdle
    /\ BatchIdle
    /\ ExecuteIdle
    /\ ListingIdle
    /\ ObserverIdle

\* What the steps of the DatabaseManager leave alone.
DatabaseFrame ==
    UNCHANGED <<input, now, pc, output, pipelineVars, commandVars, batchVars,
                executeVars, listingVars, observerVars>>

\* createPool(): a pool is made unless there is one.
CreatePool ==
    /\ pool = 0
    /\ Len(pools) < MaxPools
    /\ pools' = Append(pools, "open")
    /\ pool' = Len(pools) + 1
    /\ UNCHANGED <<connection, sessions, callers, closer>>
    /\ DatabaseFrame

\* connect() up to its await: with a connection at hand it is returned;
\* without one mysql.createConnection is called and awaited.
ConnectBegin(c) ==
    /\ callers[c].pc = "idle"
    /\ callers' = [callers EXCEPT ![c] =
                      IF connection # 0
                      THEN [pc |-> "returned", held |-> connection]
                      ELSE [pc |-> "creating", held |-> 0]]
    /\ UNCHANGED <<connection, pool, sessions, pools, closer>>
    /\ DatabaseFrame

\* mysql.createConnection has resolved: the new connection is stored in
\* this.connection, whatever is there, and this.connection is returned.
ConnectCreated(c) ==
    /\ callers[c].pc = "creating"
    /\ Len(sessions) < MaxConnections
    /\ sessions' = Append(sessions, "open")
    /\ connection' = Len(sessions) + 1
    /\ callers' = [callers EXCEPT ![c] = [pc |-> "returned", held |-> Len(sessions) + 1]]
    /\ UNCHANGED <<pool, pools, closer>>
    /\ DatabaseFrame

\* mysql.createConnection has rejected: the error is logged and thrown on.
ConnectFails(c) ==
    /\ callers[c].pc = "creating"
    /\ callers' = [callers EXCEPT ![c] = [pc |-> "threw", held |-> 0]]
    /\ UNCHANGED <<connection, pool, sessions, pools, closer>>
    /\ DatabaseFrame

\* The caller of connect() has used what it got and returns.
CallerReturns(c) ==
    /\ callers[c].pc \in {"returned", "threw"}
    /\ callers' = [callers EXCEPT ![c] = IdleCaller]
    /\ UNCHANGED <<connection, pool, sessions, pools, closer>>
    /\ DatabaseFrame

\* close() up to its first await: the end of the connection if there is
\* one, else the end of the pool if there is one, else it returns.
CloseBegin ==
    /\ closer.pc = "idle"
    /\ closer' = IF connection # 0 THEN [pc |-> "endingConnection", target |-> connection]
                 ELSE IF pool # 0 THEN [pc |-> "endingPool", target |-> pool]
                 ELSE [pc |-> "returned", target |-> 0]
    /\ UNCHANGED <<connection, pool, sessions, pools, callers>>
    /\ DatabaseFrame

\* connection.end() has resolved: this.connection is set to null and
\* close() goes on to the pool.
CloseConnectionEnded ==
    /\ closer.pc = "endingConnection"
    /\ sessions' = [sessions EXCEPT ![closer.target] = "ended"]
    /\ connection' = 0
    /\ closer' = IF pool # 0 THEN [pc |-> "endingPool", target |-> pool]
                 ELSE [pc |-> "returned", target |-> 0]
    /\ UNCHANGED <<pool, pools, callers>>
    /\ DatabaseFrame

\* pool.end() has resolved: this.pool is set to null and close() returns.
ClosePoolEnded ==
    /\ closer.pc = "endingPool"
    /\ pools' = [pools EXCEPT ![closer.target] = "ended"]
    /\ pool' = 0
    /\ closer' = [pc |-> "returned", target |-> 0]
    /\ UNCHANGED <<connection, sessions, callers>>
    /\ DatabaseFrame

\* connection.end() or pool.end() has rejected: the catch logs the error
\* and close() returns.
CloseEndFails ==
    /\ closer.pc \in {"endingConnection", "endingPool"}
    /\ closer' = [pc |-> "returned", target |-> 0]
    /\ UNCHANGED <<connection, pool, sessions, pools, callers>>
    /\ DatabaseFrame

\* The caller of close() goes on; close() can be called again.
CloseReturns ==
    /\ closer.pc = "returned"
    /\ closer' = [pc |-> "idle", target |-> 0]
    /\ UNCHANGED <<connection, pool, sessions, pools, callers>>
    /\ DatabaseFrame

NextDatabase ==
    \/ CreatePool
    \/ \E c \in Callers : ConnectBegin(c)
    \/ \E c \in Callers : ConnectCreated(c)
    \/ \E c \in Callers : ConnectFails(c)
    \/ \E c \in Callers : CallerReturns(c)
    \/ CloseBegin
    \/ CloseConnectionEnded
    \/ ClosePoolEnded
    \/ CloseEndFails
    \/ CloseReturns

SpecDatabase == InitDatabase /\ [][NextDatabase]_vars

\* The connections that have been created and not ended.
OpenSessions == {i \in DOMAIN sessions : sessions[i] = "open"}

\* The pools that have been created and not ended.
OpenPools == {i \in DOMAIN pools : pools[i] = "open"}

\* C28: the manager has at most one connection open at a time, it is the
\* one this.connection refers to, and every caller that holds an open
\* connection holds that one.
C28_SingleSession ==
    /\ Cardinality(OpenSessions) <= 1
    /\ \A i \in OpenSessions : connection = i
    /\ \A c \in Callers :
          callers[c].held \in OpenSessions => callers[c].held = connection

\* close() returns in this step.
CloseHasReturned == closer.pc # "returned" /\ closer'.pc = "returned"

\* C29: close() never ends in an exception, and at the moment it returns
\* this.connection and this.pool are null and every connection and pool
\* that was made has been ended.
C29_CloseReleasesEverything ==
    [][/\ closer'.pc \in {"idle", "endingConnection", "endingPool", "returned"}
       /\ CloseHasReturned =>
             /\ connection' = 0
             /\ pool' = 0
             /\ \A i \in DOMAIN sessions' : sessions'[i] = "ended"
             /\ \A i \in DOMAIN pools' : pools'[i] = "ended"]_vars

====
